---- MODULE Spec2Model ----
(***************************************************************************)
(* codeStructView: the structural scanners (C#, Java, JavaScript/Vue       *)
(* options object, Vue container, HTML), the documentation extractor, the  *)
(* element builder and the parser factory, as state machines over the      *)
(* text lines of one file.  Text is kept as text: a line is a string, and  *)
(* the scanners' regular expressions are matched character by character    *)
(* with the semantics of String.prototype.match (leftmost match, greedy    *)
(* and lazy quantifiers tried in priority order, capture groups).          *)
(***************************************************************************)
EXTENDS Integers, Sequences, FiniteSets, TLC

VARIABLES scans, parsers, nodeMarks, workspaceState, updates

vars == <<scans, parsers, nodeMarks, workspaceState, updates>>

\* the state of the structure view, which no scan reads or writes
viewVars == <<nodeMarks, workspaceState, updates>>

(***************************************************************************)
(* Strings (String.prototype: trim, startsWith, includes, indexOf,         *)
(* substring) and the character classes of the regular expressions.        *)
(***************************************************************************)
Lower ==
    {"a", "b", "c", "d", "e", "f", "g", "h", "i", "j", "k", "l", "m",
     "n", "o", "p", "q", "r", "s", "t", "u", "v", "w", "x", "y", "z"}

Upper ==
    {"A", "B", "C", "D", "E", "F", "G", "H", "I", "J", "K", "L", "M",
     "N", "O", "P", "Q", "R", "S", "T", "U", "V", "W", "X", "Y", "Z"}

Digit == {"0", "1", "2", "3", "4", "5", "6", "7", "8", "9"}

\* \w
WordCh == Lower \cup Upper \cup Digit \cup {"_"}

\* \s
SpaceCh == {" ", "\t", "\n"}

Ch(s, i) == SubSeq(s, i, i)

Min(S) == CHOOSE x \in S : \A y \in S : x <= y

Max(S) == CHOOSE x \in S : \A y \in S : x >= y

\* const v = value; followed by the statements Op that use v
With(v, Op(_)) == Op(v)

\* the concatenation of a sequence of strings
RECURSIVE Concat(_)
Concat(ss) ==
    IF Len(ss) = 0 THEN ""
    ELSE IF Len(ss) = 1 THEN ss[1]
    ELSE Concat(SubSeq(ss, 1, Len(ss) \div 2)) \o Concat(SubSeq(ss, Len(ss) \div 2 + 1, Len(ss)))

\* s.substring(from) with a 0-based index, as in JavaScript
SubstringFrom(s, from) ==
    IF from >= Len(s) THEN "" ELSE SubSeq(s, from + 1, Len(s))

\* s.substring(0, to) with a 0-based exclusive end
SubstringTo(s, to) ==
    IF to <= 0 THEN "" ELSE SubSeq(s, 1, IF to > Len(s) THEN Len(s) ELSE to)

StartsWith(s, p) ==
    Len(p) <= Len(s) /\ SubSeq(s, 1, Len(p)) = p

EndsWith(s, p) ==
    Len(p) <= Len(s) /\ SubSeq(s, Len(s) - Len(p) + 1, Len(s)) = p

\* the 1-based positions at which p occurs in s
Occurrences(s, p) ==
    {i \in 1..(Len(s) - Len(p) + 1) : SubSeq(s, i, i + Len(p) - 1) = p}

\* s.indexOf(p): the 0-based index of the first occurrence, -1 when absent
IndexOf(s, p) ==
    With(Occurrences(s, p), LAMBDA at : IF at = {} THEN 0 - 1 ELSE Min(at) - 1)

Includes(s, p) == Occurrences(s, p) # {}

\* the positions of s that hold no white space
Inked(s) == {i \in 1..Len(s) : Ch(s, i) \notin SpaceCh}

TrimStart(s) ==
    With(Inked(s), LAMBDA ink : IF ink = {} THEN "" ELSE SubSeq(s, Min(ink), Len(s)))

TrimEnd(s) ==
    With(Inked(s), LAMBDA ink : IF ink = {} THEN "" ELSE SubSeq(s, 1, Max(ink)))

Trim(s) ==
    With(Inked(s), LAMBDA ink : IF ink = {} THEN "" ELSE SubSeq(s, Min(ink), Max(ink)))

\* (line.match(/c/g) || []).length for a one-character pattern
CountCh(s, c) == Cardinality({i \in 1..Len(s) : Ch(s, i) = c})

\* the net brace count of a line: openBraces - closeBraces
BraceDelta(s) == CountCh(s, "{") - CountCh(s, "}")

LowerOf(c) ==
    CASE c = "A" -> "a" [] c = "B" -> "b" [] c = "C" -> "c" [] c = "D" -> "d"
      [] c = "E" -> "e" [] c = "F" -> "f" [] c = "G" -> "g" [] c = "H" -> "h"
      [] c = "I" -> "i" [] c = "J" -> "j" [] c = "K" -> "k" [] c = "L" -> "l"
      [] c = "M" -> "m" [] c = "N" -> "n" [] c = "O" -> "o" [] c = "P" -> "p"
      [] c = "Q" -> "q" [] c = "R" -> "r" [] c = "S" -> "s" [] c = "T" -> "t"
      [] c = "U" -> "u" [] c = "V" -> "v" [] c = "W" -> "w" [] c = "X" -> "x"
      [] c = "Y" -> "y" [] c = "Z" -> "z" [] OTHER -> c

\* s.toLowerCase()
toLowerCase(s) == Concat([j \in 1..Len(s) |-> LowerOf(Ch(s, j))])

\* s.lastIndexOf(c): the 0-based index of the last c of s, -1 when s has none
lastIndexOf(s, c) == Max({j - 1 : j \in {j \in 1..Len(s) : Ch(s, j) = c}} \cup {-1})

\* s.substring(start): a negative start counts as 0
substring(s, start) == SubSeq(s, Max({start, 0}) + 1, Len(s))

\* filePath.substring(filePath.lastIndexOf('.')): the text from the last dot
\* of the path on, the whole path when it has no dot
ExtensionOf(filePath) == substring(filePath, lastIndexOf(filePath, "."))

\* a.toLowerCase() === b.toLowerCase() for strings of one length
SameIgnoringCase(a, b) ==
    Len(a) = Len(b) /\ \A j \in 1..Len(a) : LowerOf(Ch(a, j)) = LowerOf(Ch(b, j))

(***************************************************************************)
(* Regular expressions.  A pattern is a sequence of nodes:                 *)
(*   Lit(s)            the literal text s                                  *)
(*   LitI(s)           the literal text s under the /i flag                *)
(*   Cls(cs,min,max)   a character of the set cs, min..max times, greedy   *)
(*                     (max = Inf: unbounded); ClsLazy: the lazy form;     *)
(*                     NCls / NClsLazy: a character not in cs              *)
(*   Opt(p)            (?:p)?                                              *)
(*   Alt(ps)           (?:p1|p2|...)                                       *)
(*   Open(g), Close(g) the parentheses of capture group g                  *)
(*   Bol, Eol          ^ and $                                             *)
(* ReMatch tries the alternatives in the order a backtracking matcher      *)
(* does and returns the first success.                                     *)
(***************************************************************************)
Inf == 0 - 1

Lit(s) == [k |-> "lit", s |-> s]

LitI(s) == [k |-> "liti", s |-> s]

Cls(cs, min, max) == [k |-> "set", neg |-> FALSE, cs |-> cs, min |-> min, max |-> max, lazy |-> FALSE]

NCls(cs, min, max) == [k |-> "set", neg |-> TRUE, cs |-> cs, min |-> min, max |-> max, lazy |-> FALSE]

NClsLazy(cs, min, max) == [k |-> "set", neg |-> TRUE, cs |-> cs, min |-> min, max |-> max, lazy |-> TRUE]

ClsLazy(cs, min, max) == [k |-> "set", neg |-> FALSE, cs |-> cs, min |-> min, max |-> max, lazy |-> TRUE]

Opt(p) == [k |-> "opt", p |-> p]

Alt(ps) == [k |-> "alt", ps |-> ps]

Open(g) == [k |-> "open", g |-> g]

Close(g) == [k |-> "close", g |-> g]

Bol == [k |-> "bol"]

Eol == [k |-> "eol"]

\* \s*  \s+  \w+
Ws0 == Cls(SpaceCh, 0, Inf)

Ws1 == Cls(SpaceCh, 1, Inf)

W1 == Cls(WordCh, 1, Inf)

\* (?:w1|w2|...) over literal words
Words(ws) == Alt([i \in 1..Len(ws) |-> <<Lit(ws[i])>>])

InSet(n, c) == IF n.neg THEN c \notin n.cs ELSE c \in n.cs

\* how many characters from position i on the quantified class n can take
RunLen(n, s, i) ==
    With({j \in i..Len(s) : ~InSet(n, Ch(s, j))},
         LAMBDA stops :
           With(IF stops = {} THEN Len(s) + 1 - i ELSE Min(stops) - i,
                LAMBDA run : IF n.max # Inf /\ run > n.max THEN n.max ELSE run))

\* the concatenation of a sequence of sequences
RECURSIVE Flat(_)
Flat(ss) ==
    IF Len(ss) = 0 THEN <<>>
    ELSE IF Len(ss) = 1 THEN ss[1] \o <<>>
    ELSE Flat(SubSeq(ss, 1, Len(ss) \div 2)) \o Flat(SubSeq(ss, Len(ss) \div 2 + 1, Len(ss)))

NoCaps == [g \in 1..3 |-> <<0, 0>>]

\* A thread of the matcher: the position it has reached in the subject and
\* the bounds <<start, end>> of the groups it has passed.
Thread(i, caps) == [i |-> i, caps |-> caps]

\* The threads ths, kept in order of preference, without those whose position
\* a preferred thread holds already: from one position on, the two would go
\* the same way, and a backtracking matcher accepts the preferred one.
Leaders(ths) ==
    IF Len(ths) <= 1 THEN ths
    ELSE With({p \in DOMAIN ths : \A q \in 1..(p - 1) : ths[q].i # ths[p].i},
              LAMBDA firsts :
                [r \in 1..Cardinality(firsts) |->
                   ths[CHOOSE p \in firsts : Cardinality({q \in firsts : q < p}) = r - 1]] \o <<>>)

RECURSIVE Run(_, _, _, _)

\* the threads that thread th becomes by passing the node n, preferred first
Step(n, s, th) ==
    CASE n.k = "lit" ->
           IF th.i + Len(n.s) - 1 <= Len(s) /\ SubSeq(s, th.i, th.i + Len(n.s) - 1) = n.s
           THEN <<Thread(th.i + Len(n.s), th.caps)>> ELSE <<>>
      [] n.k = "liti" ->
           IF th.i + Len(n.s) - 1 <= Len(s)
              /\ SameIgnoringCase(SubSeq(s, th.i, th.i + Len(n.s) - 1), n.s)
           THEN <<Thread(th.i + Len(n.s), th.caps)>> ELSE <<>>
      [] n.k = "set" ->
           With(RunLen(n, s, th.i),
                LAMBDA run :
                  [t \in 1..(run - n.min + 1) |->
                     Thread(IF n.lazy THEN th.i + n.min + t - 1 ELSE th.i + run - t + 1,
                            th.caps)] \o <<>>)
      [] n.k = "opt" -> Run(n.p, 1, s, <<th>>) \o <<th>>
      [] n.k = "alt" -> Flat([a \in DOMAIN n.ps |-> Run(n.ps[a], 1, s, <<th>>)] \o <<>>)
      [] n.k = "open" -> <<Thread(th.i, [th.caps EXCEPT ![n.g] = <<th.i, 0>>])>>
      [] n.k = "close" -> <<Thread(th.i, [th.caps EXCEPT ![n.g][2] = th.i])>>
      [] n.k = "bol" -> IF th.i = 1 THEN <<th>> ELSE <<>>
      [] n.k = "eol" -> IF th.i = Len(s) + 1 THEN <<th>> ELSE <<>>

\* The threads that have passed the nodes ns[k], ns[k + 1], ... of a pattern,
\* from the threads ths that stand before ns[k], preferred first.
Run(ns, k, s, ths) ==
    IF k > Len(ns) \/ ths = <<>> THEN ths
    ELSE Run(ns, k + 1, s,
             Leaders(Flat([t \in DOMAIN ths |-> Step(ns[k], s, ths[t])] \o <<>>)))

\* the first match of pattern re in s starting at or after position from
ReSearchFrom(re, s, from) ==
    With([t \in 1..(Len(s) + 2 - from) |->
            Run(re, 1, s, <<Thread(from + t - 1, NoCaps)>>)] \o <<>>,
         LAMBDA runs :
           With({t \in DOMAIN runs : runs[t] # <<>>},
                LAMBDA ok :
                  IF ok = {} THEN [ok |-> FALSE, start |-> 0, end |-> 0, caps |-> NoCaps]
                  ELSE [ok |-> TRUE, start |-> from + Min(ok) - 1,
                        end |-> runs[Min(ok)][1].i, caps |-> runs[Min(ok)][1].caps]))

\* s.match(re) without the g flag
ReMatch(re, s) == ReSearchFrom(re, s, 1)

\* re.test(s)
ReTest(re, s) == ReMatch(re, s).ok

Undefined == "undefined"

\* match[g]: the text of capture group g, undefined when the group took no part
Group(m, s, g) ==
    IF m.caps[g][2] = 0 THEN Undefined
    ELSE IF m.caps[g][1] = m.caps[g][2] THEN ""
    ELSE SubSeq(s, m.caps[g][1], m.caps[g][2] - 1)

\* a JavaScript value is truthy: neither undefined nor the empty string
Truthy(s) == s # Undefined /\ s # ""

\* ss.join(sep)
Join(ss, sep) == Concat([i \in 1..Len(ss) |-> IF i = 1 THEN ss[i] ELSE sep \o ss[i]])

\* s.split('\n')
SplitNl(s) ==
    With({0, Len(s) + 1} \cup {i \in 1..Len(s) : Ch(s, i) = "\n"},
         LAMBDA cuts :
           With([k \in 1..Cardinality(cuts) |->
                   CHOOSE c \in cuts : Cardinality({d \in cuts : d < c}) = k - 1],
                LAMBDA cut :
                  [k \in 1..(Len(cut) - 1) |->
                     IF cut[k] + 1 > cut[k + 1] - 1 THEN ""
                     ELSE SubSeq(s, cut[k] + 1, cut[k + 1] - 1)]))

\* s.replace(/\s+/g, ' ')
CollapseWs(s) ==
    Concat([i \in 1..Len(s) |->
              IF Ch(s, i) \notin SpaceCh THEN Ch(s, i)
              ELSE IF i > 1 /\ Ch(s, i - 1) \in SpaceCh THEN "" ELSE " "])

\* a || undefined
OrUndefined(s) == IF Truthy(s) THEN s ELSE Undefined

\* .filter(line => line.length > 0)
FilterNonEmpty(ss) == SelectSeq(ss, LAMBDA line : Len(line) > 0)

(***************************************************************************)
(* CodeElementType and AccessModifier (fileStructureParser.ts)             *)
(***************************************************************************)
CodeElementType ==
    [Class |-> "class", Interface |-> "interface", Method |-> "method",
     Property |-> "property", Variable |-> "variable", Function |-> "function",
     Namespace |-> "namespace", Enum |-> "enum", Constructor |-> "constructor",
     Field |-> "field", Module |-> "module"]

AccessDefault == ""

\* a CodeElement; params is the interface's optional field (<<>>: not set)
CodeElement(name, type, accessModifier, line, comment, returnType, parameters, returns, children) ==
    [name |-> name, type |-> type, accessModifier |-> accessModifier, line |-> line,
     comment |-> comment, returnType |-> returnType, parameters |-> parameters,
     returns |-> returns, params |-> <<>>, children |-> children]

(***************************************************************************)
(* BaseParser                                                              *)
(***************************************************************************)
extractAccessModifier(line) ==
    IF Includes(line, "public") THEN "public"
    ELSE IF Includes(line, "private") THEN "private"
    ELSE IF Includes(line, "protected") THEN "protected"
    ELSE IF Includes(line, "internal") THEN "internal"
    ELSE AccessDefault

\* while (s.startsWith(c)) s = s.substring(1).trim()
RECURSIVE StripLeading(_, _)
StripLeading(s, c) ==
    IF StartsWith(s, c) THEN StripLeading(Trim(SubstringFrom(s, 1)), c) ELSE s

cleanComment(comment) ==
    IF ~Truthy(comment) THEN ""
    ELSE
      LET trimmed == StripLeading(Trim(comment), " ")
          noSlash == StripLeading(trimmed, "/")
          noStar == StripLeading(noSlash, "*")
          noSpace == StripLeading(noStar, " ")
      IN Trim(CollapseWs(noSpace))

\* the fixed lookback windows of the extractor
XmlWindow == 20

PlainWindow == 5

\* The upward collection loop shared by extractXmlCommentInfo and
\* extractComment: the contents of the contiguous /// lines above lineIndex
\* (0-based), oldest first.  lines[i + 1] is the source's lines[i].
RECURSIVE XmlCollect(_, _, _, _, _)
XmlCollect(lines, i, lo, foundXmlStart, xmlCommentLines) ==
    IF i < lo THEN xmlCommentLines
    ELSE
      LET originalLine == lines[i + 1]
          line == Trim(originalLine)
      IN
      IF StartsWith(line, "///") THEN
        XmlCollect(lines, i - 1, lo, TRUE,
                   <<Trim(SubstringFrom(originalLine, IndexOf(originalLine, "///") + 3))>>
                     \o xmlCommentLines)
      ELSE IF foundXmlStart THEN
        (IF line # "" /\ ~StartsWith(line, "//") /\ ~StartsWith(line, "*")
            /\ ~StartsWith(line, "[")
         THEN xmlCommentLines
         ELSE XmlCollect(lines, i - 1, lo, foundXmlStart, xmlCommentLines))
      ELSE
        (IF line # "" /\ ~StartsWith(line, "//") /\ ~StartsWith(line, "*")
            /\ ~StartsWith(line, "///") /\ ~StartsWith(line, "[")
         THEN xmlCommentLines
         ELSE XmlCollect(lines, i - 1, lo, foundXmlStart, xmlCommentLines))

XmlCommentLines(lines, lineIndex) ==
    XmlCollect(lines, lineIndex - 1, Max({0, lineIndex - XmlWindow}), FALSE, <<>>)

AnyLazy == NClsLazy({}, 0, Inf)

\* /<summary>([\s\S]*?)<\/summary>/i
SummaryRe == <<LitI("<summary>"), Open(1), AnyLazy, Close(1), LitI("</summary>")>>

\* /<returns>([\s\S]*?)<\/returns>/i
ReturnsRe == <<LitI("<returns>"), Open(1), AnyLazy, Close(1), LitI("</returns>")>>

\* /<param\s+name=["']([^"']+)["']>([\s\S]*?)<\/param>/gi
ParamRe ==
    <<LitI("<param"), Ws1, LitI("name="), Cls({"\"", "'"}, 1, 1),
      Open(1), NCls({"\"", "'"}, 1, Inf), Close(1), Cls({"\"", "'"}, 1, 1), Lit(">"),
      Open(2), AnyLazy, Close(2), LitI("</param>")>>

\* text.split('\n').map(cleanComment).filter(nonempty).join(' '), then
\* .replace(/\s+/g, ' ').trim()
CleanLines(parts) ==
    Join(FilterNonEmpty([i \in 1..Len(parts) |-> cleanComment(parts[i])]), " ")

CleanTagText(text) == Trim(CollapseWs(CleanLines(SplitNl(text))))

\* the cleaned content of the first tag matching re, "" when there is none
TagText(re, xmlComment) ==
    With(ReMatch(re, xmlComment),
         LAMBDA m : IF m.ok THEN CleanTagText(Group(m, xmlComment, 1)) ELSE "")

\* for (const match of xmlComment.matchAll(ParamRe)) ...
RECURSIVE ParamMatches(_, _)
ParamMatches(xmlComment, from) ==
    With(ReSearchFrom(ParamRe, xmlComment, from),
         LAMBDA m :
           IF ~m.ok THEN <<>>
           ELSE
             With(CleanTagText(Group(m, xmlComment, 2)),
                  LAMBDA paramDesc :
                    IF Truthy(Group(m, xmlComment, 1)) /\ Truthy(paramDesc)
                    THEN <<[name |-> Group(m, xmlComment, 1), description |-> paramDesc]>>
                    ELSE <<>>)
             \o ParamMatches(xmlComment, m.end))

\* The result object; params is <<>> both when the source leaves it unset
\* and when it sets [], which createElement does not tell apart.
NoXmlCommentInfo == [summary |-> Undefined, params |-> <<>>, returns |-> Undefined]

extractXmlCommentInfo(lines, lineIndex) ==
    IF lineIndex < 0 \/ lineIndex >= Len(lines) THEN NoXmlCommentInfo
    ELSE
      With(XmlCommentLines(lines, lineIndex),
           LAMBDA xmlCommentLines :
             IF Len(xmlCommentLines) = 0 THEN NoXmlCommentInfo
             ELSE
               With(Join(xmlCommentLines, "\n"),
                    LAMBDA xmlComment :
                      [summary |-> OrUndefined(TagText(SummaryRe, xmlComment)),
                       params |-> ParamMatches(xmlComment, 1),
                       returns |-> OrUndefined(TagText(ReturnsRe, xmlComment))]))

\* the block comment opened on line i (0-based): the text up to the closing
\* marker, the lines in between joined by a space
RECURSIVE BlockComment(_, _, _, _, _)
BlockComment(lines, i, j, lineIndex, comment) ==
    IF j > lineIndex \/ j >= Len(lines) THEN comment
    ELSE
      LET commentLine == Trim(lines[j + 1])
      IN IF Includes(commentLine, "*/")
         THEN comment \o SubstringTo(commentLine, IndexOf(commentLine, "*/"))
         ELSE IF j = i
         THEN BlockComment(lines, i, j + 1, lineIndex,
                           comment \o SubstringFrom(commentLine, IndexOf(commentLine, "/*") + 2))
         ELSE BlockComment(lines, i, j + 1, lineIndex, comment \o " " \o commentLine)

\* the second loop of extractComment: a plain comment just above lineIndex
RECURSIVE PlainComment(_, _, _, _)
PlainComment(lines, i, lo, lineIndex) ==
    IF i < lo THEN Undefined
    ELSE
      LET line == Trim(lines[i + 1])
      IN
      IF StartsWith(line, "//") /\ ~StartsWith(line, "///")
      THEN OrUndefined(cleanComment(SubstringFrom(line, 2)))
      ELSE IF Includes(line, "/*")
      THEN OrUndefined(cleanComment(BlockComment(lines, i, i, lineIndex, "")))
      ELSE IF line # "" /\ ~StartsWith(line, "//") /\ ~StartsWith(line, "*")
              /\ ~StartsWith(line, "///")
      THEN Undefined
      ELSE PlainComment(lines, i - 1, lo, lineIndex)

extractComment(lines, lineIndex) ==
    IF lineIndex < 0 \/ lineIndex >= Len(lines) THEN Undefined
    ELSE
      With(XmlCommentLines(lines, lineIndex),
           LAMBDA xmlCommentLines :
             With(IF Len(xmlCommentLines) = 0 THEN ""
                  ELSE With(TagText(SummaryRe, Join(xmlCommentLines, "\n")),
                            LAMBDA summary :
                              IF summary # "" THEN summary ELSE CleanLines(xmlCommentLines)),
                  LAMBDA xml :
                    IF xml # "" THEN xml
                    ELSE PlainComment(lines, lineIndex - 1,
                                      Max({0, lineIndex - PlainWindow}), lineIndex)))

\* A synthesized child of a callable element (description, parameters,
\* returns, one parameter): kind variable, the line of the callable.
PseudoElement(name, line, comment, children) ==
    CodeElement(name, CodeElementType.Variable, AccessDefault, line, comment, Undefined, Undefined, Undefined, children)

\* The labels of the documentation children.  The source's literals are the
\* Chinese words for "method description:", "method parameters:" and
\* "method returns:"; the model writes them in ASCII.
DescriptionName == "description:"

ParametersName == "parameters:"

ReturnsName == "returns:"

\* the kinds for which createElement synthesizes the documentation children
DocChildKinds == {CodeElementType.Method, CodeElementType.Constructor}

\* the documentation children of a callable, in the source's order
DocChildren(line, comment, params, returns) ==
    (IF Truthy(comment)
     THEN <<PseudoElement(DescriptionName, line, StripLeading(comment, "/"), <<>>)>>
     ELSE <<>>)
    \o (IF Len(params) > 0
        THEN <<PseudoElement(ParametersName, line, Undefined,
                 [i \in 1..Len(params) |->
                    PseudoElement(params[i].name, line,
                                  StripLeading(params[i].description, "/"), <<>>)])>>
        ELSE <<>>)
    \o (IF Truthy(returns)
        THEN <<PseudoElement(ReturnsName, line, StripLeading(returns, "/"), <<>>)>>
        ELSE <<>>)

\* createElement with the index for the comment lookup given
\* the comment of the element: the summary, else extractComment, cleaned
ElementComment(summary, lines, lineIndex) ==
    With(IF Truthy(summary) THEN summary ELSE extractComment(lines, lineIndex),
         LAMBDA comment : IF Truthy(comment) THEN cleanComment(comment) ELSE comment)

createElementAt(name, type, line, lineText, lines, returnType, parameters, lineIndex) ==
    With(extractXmlCommentInfo(lines, lineIndex),
         LAMBDA xmlCommentInfo :
           With(ElementComment(xmlCommentInfo.summary, lines, lineIndex),
                LAMBDA comment :
                  CodeElement(name, type, extractAccessModifier(lineText), line, comment,
                              returnType, parameters, xmlCommentInfo.returns,
                              IF type \in DocChildKinds
                              THEN DocChildren(line, comment, xmlCommentInfo.params,
                                               xmlCommentInfo.returns)
                              ELSE <<>>)))

\* createElement without lineIndex: the lookup index is line - 1
createElement(name, type, line, lineText, lines, returnType, parameters) ==
    createElementAt(name, type, line, lineText, lines, returnType, parameters, line - 1)

(***************************************************************************)
(* The element tree.  The scanners hold references to elements they have   *)
(* already pushed (currentNamespace, currentClass); an element is only     *)
(* ever appended to a children list, so a reference is the path of         *)
(* positions that leads to it: <<>> is null, <<i>> the i-th root element,  *)
(* <<i, j>> the j-th child of the i-th root element.                       *)
(***************************************************************************)
Null == <<>>

NodeAt(elements, path) ==
    IF Len(path) = 1 THEN elements[path[1]]
    ELSE elements[path[1]].children[path[2]]

\* parent.children.push(el); with path Null: elements.push(el)
PushChild(elements, path, el) ==
    IF path = Null THEN Append(elements, el)
    ELSE IF Len(path) = 1
    THEN [elements EXCEPT ![path[1]].children = Append(@, el)]
    ELSE [elements EXCEPT ![path[1]].children[path[2]].children = Append(@, el)]

\* the path the next element pushed under parent will have
NextPath(elements, parent) ==
    IF parent = Null THEN <<Len(elements) + 1>>
    ELSE <<parent[1], Len(elements[parent[1]].children) + 1>>

NoElement == [ok |-> FALSE]

Some(el) == [ok |-> TRUE, el |-> el]

(***************************************************************************)
(* CSharpParser                                                            *)
(***************************************************************************)
AccessWords == <<"public", "private", "protected", "internal">>

\* [^)]*  and the parenthesised parameter list \(([^)]*)\) as group g
ParamList(g) == <<Lit("("), Open(g), NCls({")"}, 0, Inf), Close(g), Lit(")")>>

\* ([\w<>,\s.]+?) as group g
ReturnTypeLazy(g) ==
    <<Open(g), ClsLazy(WordCh \cup {"<", ">", ",", "."} \cup SpaceCh, 1, Inf), Close(g)>>

\* (\w+(?:<[^>]+>)?) as group g
TypeName(g) ==
    <<Open(g), W1, Opt(<<Lit("<"), NCls({">"}, 1, Inf), Lit(">")>>), Close(g)>>

\* (\w+) as group g
Name(g) == <<Open(g), W1, Close(g)>>

\* /(?:public|private|protected|internal)?\s*(?:abstract|sealed|static)?\s*class\s+(\w+)/
CsClassRe ==
    <<Opt(<<Words(AccessWords)>>), Ws0, Opt(<<Words(<<"abstract", "sealed", "static">>)>>), Ws0,
      Lit("class"), Ws1>> \o Name(1)

\* /(?:public|private|protected|internal)?\s*interface\s+(\w+)/
CsInterfaceRe == <<Opt(<<Words(AccessWords)>>), Ws0, Lit("interface"), Ws1>> \o Name(1)

\* /namespace\s+([\w.]+)/
CsNamespaceRe == <<Lit("namespace"), Ws1, Open(1), Cls(WordCh \cup {"."}, 1, Inf), Close(1)>>

\* /(?:public|private|protected|internal)?\s*enum\s+(\w+)/
CsEnumRe == <<Opt(<<Words(AccessWords)>>), Ws0, Lit("enum"), Ws1>> \o Name(1)

\* /static\s+(?:public|private|protected|internal)?\s*(\w+)\s*\(([^)]*)\)/
CsConstructorRe1 ==
    <<Lit("static"), Ws1, Opt(<<Words(AccessWords)>>), Ws0>> \o Name(1) \o <<Ws0>> \o ParamList(2)

\* /(?:public|private|protected|internal)\s*(\w+)\s*\(([^)]*)\)/
CsConstructorRe2 == <<Words(AccessWords), Ws0>> \o Name(1) \o <<Ws0>> \o ParamList(2)

\* /^\s*(\w+)\s*\(([^)]*)\)/
CsConstructorRe3 == <<Bol, Ws0>> \o Name(1) \o <<Ws0>> \o ParamList(2)

\* /static\s+(?:public|private|protected|internal)?\s*(?:async|virtual|override|abstract)?\s*([\w<>,\s.]+?)\s+(\w+)\s*\(([^)]*)\)/
CsMethodRe1 ==
    <<Lit("static"), Ws1, Opt(<<Words(AccessWords)>>), Ws0,
      Opt(<<Words(<<"async", "virtual", "override", "abstract">>)>>), Ws0>>
    \o ReturnTypeLazy(1) \o <<Ws1>> \o Name(2) \o <<Ws0>> \o ParamList(3)

\* /(?:public|private|protected|internal)\s*(?:static|async|virtual|override|abstract)?\s*([\w<>,\s.]+?)\s+(\w+)\s*\(([^)]*)\)/
CsMethodRe2 ==
    <<Words(AccessWords), Ws0,
      Opt(<<Words(<<"static", "async", "virtual", "override", "abstract">>)>>), Ws0>>
    \o ReturnTypeLazy(1) \o <<Ws1>> \o Name(2) \o <<Ws0>> \o ParamList(3)

\* /static\s+([\w<>,\s.]+?)\s+(\w+)\s*\(([^)]*)\)/
CsMethodRe3 ==
    <<Lit("static"), Ws1>> \o ReturnTypeLazy(1) \o <<Ws1>> \o Name(2) \o <<Ws0>> \o ParamList(3)

\* /static\s+(?:public|private|protected|internal)?\s*(?:virtual|override)?\s*(\w+(?:<[^>]+>)?)\s+(\w+)\s*\{/
CsPropertyRe1 ==
    <<Lit("static"), Ws1, Opt(<<Words(AccessWords)>>), Ws0,
      Opt(<<Words(<<"virtual", "override">>)>>), Ws0>>
    \o TypeName(1) \o <<Ws1>> \o Name(2) \o <<Ws0, Lit("{")>>

\* /(?:public|private|protected|internal)\s*(?:static|virtual|override)?\s*(\w+(?:<[^>]+>)?)\s+(\w+)\s*\{/
CsPropertyRe2 ==
    <<Words(AccessWords), Ws0, Opt(<<Words(<<"static", "virtual", "override">>)>>), Ws0>>
    \o TypeName(1) \o <<Ws1>> \o Name(2) \o <<Ws0, Lit("{")>>

\* /static\s+(\w+(?:<[^>]+>)?)\s+(\w+)\s*\{/
CsPropertyRe3 ==
    <<Lit("static"), Ws1>> \o TypeName(1) \o <<Ws1>> \o Name(2) \o <<Ws0, Lit("{")>>

\* /^\s*(?:public|private|protected|internal|static|readonly|const)/
CsFieldPrefixRe ==
    <<Bol, Ws0, Words(AccessWords \o <<"static", "readonly", "const">>)>>

\* (?:\s*[=;])
FieldEnd == <<Ws0, Cls({"=", ";"}, 1, 1)>>

\* /(?:static|readonly|const)\s+(?:public|private|protected|internal)?\s*(\w+(?:<[^>]+>)?)\s+(\w+)(?:\s*[=;])/
CsFieldRe1 ==
    <<Words(<<"static", "readonly", "const">>), Ws1, Opt(<<Words(AccessWords)>>), Ws0>>
    \o TypeName(1) \o <<Ws1>> \o Name(2) \o FieldEnd

\* /(?:public|private|protected|internal)\s*(?:static|readonly|const)?\s*(\w+(?:<[^>]+>)?)\s+(\w+)(?:\s*[=;])/
CsFieldRe2 ==
    <<Words(AccessWords), Ws0, Opt(<<Words(<<"static", "readonly", "const">>)>>), Ws0>>
    \o TypeName(1) \o <<Ws1>> \o Name(2) \o FieldEnd

\* /(?:static|readonly|const)\s+(\w+(?:<[^>]+>)?)\s+(\w+)(?:\s*[=;])/
CsFieldRe3 ==
    <<Words(<<"static", "readonly", "const">>), Ws1>>
    \o TypeName(1) \o <<Ws1>> \o Name(2) \o FieldEnd

\* a || b || c over match results: the first pattern that matches
RECURSIVE FirstMatch(_, _)
FirstMatch(res, s) ==
    With(ReMatch(Head(res), s),
         LAMBDA m : IF m.ok \/ Len(res) = 1 THEN m ELSE FirstMatch(Tail(res), s))

\* match[g] || ''
GroupOrEmpty(m, s, g) == With(Group(m, s, g), LAMBDA t : IF Truthy(t) THEN t ELSE "")

\* a || b over parse results
OrElse(a, b) == IF a.ok THEN a ELSE b

\* one declaration pattern with the name in group 1
ParseNamed(re, type, line, lineNum, lines) ==
    With(ReMatch(re, line),
         LAMBDA m :
           IF m.ok
           THEN Some(createElement(Group(m, line, 1), type, lineNum, line, lines,
                                   Undefined, Undefined))
           ELSE NoElement)

CsParseClass(line, lineNum, lines) == ParseNamed(CsClassRe, CodeElementType.Class, line, lineNum, lines)

CsParseInterface(line, lineNum, lines) == ParseNamed(CsInterfaceRe, CodeElementType.Interface, line, lineNum, lines)

CsParseNamespace(line, lineNum, lines) == ParseNamed(CsNamespaceRe, CodeElementType.Namespace, line, lineNum, lines)

CsParseEnum(line, lineNum, lines) == ParseNamed(CsEnumRe, CodeElementType.Enum, line, lineNum, lines)

\* line.includes('{') && (line.includes('get') || line.includes('set'))
LooksLikeProperty(line) ==
    Includes(line, "{") /\ (Includes(line, "get") \/ Includes(line, "set"))

\* the test that makes a matched callable a constructor
IsConstructorName(methodName, className) == methodName = className

CsParseConstructor(line, lineNum, lines, className) ==
    IF LooksLikeProperty(line) THEN NoElement
    ELSE
      With(FirstMatch(<<CsConstructorRe1, CsConstructorRe2, CsConstructorRe3>>, line),
           LAMBDA m :
             IF m.ok /\ IsConstructorName(Group(m, line, 1), className)
             THEN Some(createElement(Group(m, line, 1), CodeElementType.Constructor, lineNum, line, lines,
                                     Undefined, GroupOrEmpty(m, line, 2)))
             ELSE NoElement)

\* a parseMethod that never recognises a constructor
AlwaysMethod(returnType, methodName, className) ==
    [type |-> CodeElementType.Method, returnType |-> returnType]

\* the kind and return type parseMethod gives a matched callable
MethodKind(returnType, methodName, className) ==
    IF returnType = methodName /\ methodName = className
    THEN [type |-> CodeElementType.Constructor, returnType |-> Undefined]
    ELSE [type |-> CodeElementType.Method, returnType |-> returnType]

CsParseMethod(line, lineNum, lines, className) ==
    IF LooksLikeProperty(line) THEN NoElement
    ELSE
      With(FirstMatch(<<CsMethodRe1, CsMethodRe2, CsMethodRe3>>, line),
           LAMBDA m :
             IF ~m.ok THEN NoElement
             ELSE
               With(MethodKind(Trim(Group(m, line, 1)), Group(m, line, 2), className),
                    LAMBDA k :
                      Some(createElement(Group(m, line, 2), k.type, lineNum, line, lines,
                                         k.returnType, GroupOrEmpty(m, line, 3)))))

CsParseProperty(line, lineNum, lines) ==
    With(FirstMatch(<<CsPropertyRe1, CsPropertyRe2, CsPropertyRe3>>, line),
         LAMBDA m :
           IF m.ok
           THEN Some(createElement(Group(m, line, 2), CodeElementType.Property, lineNum, line, lines,
                                   Group(m, line, 1), Undefined))
           ELSE NoElement)

CsParseField(line, lineNum, lines) ==
    IF Includes(line, "(")
       \/ (Includes(line, "{") /\ ~Includes(line, "get") /\ ~Includes(line, "set"))
    THEN NoElement
    ELSE IF ~ReTest(CsFieldPrefixRe, line) THEN NoElement
    ELSE
      With(FirstMatch(<<CsFieldRe1, CsFieldRe2, CsFieldRe3>>, line),
           LAMBDA m :
             IF m.ok
             THEN Some(createElement(Group(m, line, 2), CodeElementType.Field, lineNum, line, lines,
                                     Group(m, line, 1), Undefined))
             ELSE NoElement)

\* the loop's skip test: blank lines and comment lines
CsSkips(trimmedLine) ==
    \/ trimmedLine = ""
    \/ StartsWith(trimmedLine, "//")
    \/ StartsWith(trimmedLine, "*")
    \/ StartsWith(trimmedLine, "///")
    \/ StartsWith(trimmedLine, "/*")
    \/ StartsWith(trimmedLine, "/**")

\* the locals of CSharpParser.parse before the loop
CsStart(lines) ==
    [parser |-> "cs", lines |-> lines, pc |-> "loop", lineNum |-> 0,
     braceCount |-> 0,
     currentNamespace |-> Null, namespaceStartBrace |-> -1,
     currentClass |-> Null, classStartBrace |-> -1,
     inMethod |-> FALSE, methodBraceLevel |-> -1,
     elements |-> <<>>, result |-> <<>>]

\* a namespace check that leaves the class and method frames as they are
ClosesNamespaceOnly(s, braceCount) ==
    IF s.currentNamespace # Null /\ s.namespaceStartBrace >= 0
       /\ braceCount <= s.namespaceStartBrace
    THEN [s EXCEPT !.currentNamespace = Null, !.namespaceStartBrace = -1]
    ELSE s

\* the three scope-closing checks made on every processed line, in order
CsCloseNamespace(s, braceCount) ==
    IF s.currentNamespace # Null /\ s.namespaceStartBrace >= 0
       /\ braceCount <= s.namespaceStartBrace
    THEN [s EXCEPT !.currentNamespace = Null, !.namespaceStartBrace = -1,
                   !.currentClass = Null, !.classStartBrace = -1,
                   !.inMethod = FALSE, !.methodBraceLevel = -1]
    ELSE s

CsCloseClass(s, braceCount) ==
    IF s.currentClass # Null /\ s.classStartBrace >= 0 /\ braceCount <= s.classStartBrace
    THEN [s EXCEPT !.currentClass = Null, !.classStartBrace = -1,
                   !.inMethod = FALSE, !.methodBraceLevel = -1]
    ELSE s

CsCloseMethod(s, braceCount) ==
    IF s.inMethod /\ s.methodBraceLevel >= 0 /\ braceCount <= s.methodBraceLevel
    THEN [s EXCEPT !.inMethod = FALSE, !.methodBraceLevel = -1]
    ELSE s

\* a callable found at class level: it opens the method frame
CsOpenMethod(s, el) ==
    [s EXCEPT !.inMethod = TRUE, !.methodBraceLevel = s.braceCount,
              !.elements = PushChild(@, s.currentClass, el)]

\* elements.push(el) or parent.children.push(el) for a found element
CsPush(s, parent, found) ==
    IF found.ok THEN [s EXCEPT !.elements = PushChild(@, parent, found.el)] ELSE s

\* the members tried with no regard to an open method frame
ScansMethodBodies(s, trimmedLine, className) ==
    With(OrElse(CsParseConstructor(trimmedLine, s.lineNum, s.lines, className),
                CsParseMethod(trimmedLine, s.lineNum, s.lines, className)),
         LAMBDA callable :
           IF callable.ok THEN CsOpenMethod(s, callable.el)
           ELSE CsPush(s, s.currentClass,
                       OrElse(CsParseProperty(trimmedLine, s.lineNum, s.lines),
                              CsParseField(trimmedLine, s.lineNum, s.lines))))

\* the members tried when a class is open: while a method frame is open only
\* the method pattern, otherwise constructor, method, property, field
CsInClass(s, trimmedLine, className) ==
    IF s.inMethod THEN
      With(CsParseMethod(trimmedLine, s.lineNum, s.lines, className),
           LAMBDA methodElement :
             IF methodElement.ok
             THEN [s EXCEPT !.methodBraceLevel = s.braceCount,
                            !.elements = PushChild(@, s.currentClass, methodElement.el)]
             ELSE s)
    ELSE
      With(OrElse(CsParseConstructor(trimmedLine, s.lineNum, s.lines, className),
                  CsParseMethod(trimmedLine, s.lineNum, s.lines, className)),
           LAMBDA callable :
             IF callable.ok THEN CsOpenMethod(s, callable.el)
             ELSE CsPush(s, s.currentClass,
                         OrElse(CsParseProperty(trimmedLine, s.lineNum, s.lines),
                                CsParseField(trimmedLine, s.lineNum, s.lines))))

\* interface and enum, tried when no class is open
CsOutsideClass(s, trimmedLine) ==
    CsPush(s, s.currentNamespace,
           OrElse(CsParseInterface(trimmedLine, s.lineNum, s.lines),
                  CsParseEnum(trimmedLine, s.lineNum, s.lines)))

\* the class declaration and what follows it in the loop body
CsClassOrMember(s, trimmedLine, beforeBraceCount) ==
    With(IF s.currentClass = Null THEN CsParseClass(trimmedLine, s.lineNum, s.lines)
         ELSE NoElement,
         LAMBDA classElement :
           IF classElement.ok
           THEN [s EXCEPT !.currentClass = NextPath(s.elements, s.currentNamespace),
                          !.classStartBrace = beforeBraceCount,
                          !.elements = PushChild(@, s.currentNamespace, classElement.el)]
           ELSE IF s.currentClass # Null
           THEN CsInClass(s, trimmedLine, NodeAt(s.elements, s.currentClass).name)
           ELSE CsOutsideClass(s, trimmedLine))

\* the declarations tried on a processed line, after the scope checks
CsDeclarations(s, trimmedLine, beforeBraceCount) ==
    With(IF s.currentNamespace = Null /\ s.currentClass = Null
         THEN CsParseNamespace(trimmedLine, s.lineNum, s.lines)
         ELSE NoElement,
         LAMBDA namespaceElement :
           IF namespaceElement.ok
           THEN [s EXCEPT !.currentNamespace = NextPath(s.elements, Null),
                          !.namespaceStartBrace = beforeBraceCount,
                          !.elements = Append(@, namespaceElement.el)]
           ELSE CsClassOrMember(s, trimmedLine, beforeBraceCount))

\* the line counted and the three scope checks made
CsCounted(s, braceCount) ==
    CsCloseMethod(
      CsCloseClass(
        CsCloseNamespace([s EXCEPT !.lineNum = @ + 1, !.braceCount = braceCount], braceCount),
        braceCount),
      braceCount)

\* an iteration that counts the braces of the skipped lines too
CountsEveryLine(s) ==
    With(s.lines[s.lineNum + 1],
         LAMBDA line :
           IF CsSkips(Trim(line))
           THEN [s EXCEPT !.lineNum = @ + 1, !.braceCount = @ + BraceDelta(line)]
           ELSE CsDeclarations(CsCounted(s, s.braceCount + BraceDelta(line)), Trim(line),
                               s.braceCount))

\* one iteration of the loop of CSharpParser.parse
CsParseLine(s) ==
    With(s.lines[s.lineNum + 1],
         LAMBDA line :
           IF CsSkips(Trim(line)) THEN [s EXCEPT !.lineNum = @ + 1]
           ELSE CsDeclarations(CsCounted(s, s.braceCount + BraceDelta(line)), Trim(line),
                               s.braceCount))

(***************************************************************************)
(* JavaParser: class, interface, package and enum declarations, each       *)
(* pushed to the root list.                                                *)
(***************************************************************************)
JavaAccessWords == <<"public", "private", "protected">>

\* /(?:public|private|protected)?\s*(?:abstract|final)?\s*class\s+(\w+)/
JavaClassRe ==
    <<Opt(<<Words(JavaAccessWords)>>), Ws0, Opt(<<Words(<<"abstract", "final">>)>>), Ws0,
      Lit("class"), Ws1>> \o Name(1)

\* /(?:public|private|protected)?\s*interface\s+(\w+)/
JavaInterfaceRe == <<Opt(<<Words(JavaAccessWords)>>), Ws0, Lit("interface"), Ws1>> \o Name(1)

\* /package\s+([\w.]+)/
JavaPackageRe == <<Lit("package"), Ws1, Open(1), Cls(WordCh \cup {"."}, 1, Inf), Close(1)>>

\* /(?:public|private|protected)?\s*enum\s+(\w+)/
JavaEnumRe == <<Opt(<<Words(JavaAccessWords)>>), Ws0, Lit("enum"), Ws1>> \o Name(1)

JavaSkips(trimmedLine) ==
    \/ trimmedLine = ""
    \/ StartsWith(trimmedLine, "//")
    \/ StartsWith(trimmedLine, "*")
    \/ StartsWith(trimmedLine, "/**")

JavaStart(lines) ==
    [parser |-> "java", lines |-> lines, pc |-> "loop", lineNum |-> 0,
     elements |-> <<>>, result |-> <<>>]

\* the four declarations tried on a line, in the source's order
RECURSIVE FirstDeclaration(_, _, _, _)
FirstDeclaration(patterns, trimmedLine, lineNum, lines) ==
    IF patterns = <<>> THEN NoElement
    ELSE OrElse(ParseNamed(Head(patterns).re, Head(patterns).type, trimmedLine, lineNum, lines),
                FirstDeclaration(Tail(patterns), trimmedLine, lineNum, lines))

JavaPatterns ==
    <<[re |-> JavaClassRe, type |-> CodeElementType.Class], [re |-> JavaInterfaceRe, type |-> CodeElementType.Interface],
      [re |-> JavaPackageRe, type |-> CodeElementType.Namespace], [re |-> JavaEnumRe, type |-> CodeElementType.Enum]>>

\* one iteration of the loop of JavaParser.parse
JavaParseLine(s) ==
    With(Trim(s.lines[s.lineNum + 1]),
         LAMBDA trimmedLine :
           With(IF JavaSkips(trimmedLine) THEN NoElement
                ELSE FirstDeclaration(JavaPatterns, trimmedLine, s.lineNum + 1, s.lines),
                LAMBDA found :
                  [s EXCEPT !.lineNum = @ + 1,
                            !.elements = IF found.ok THEN Append(@, found.el) ELSE @]))

(***************************************************************************)
(* JavaScriptParser.  parse has two modes: ordinary declarations (class,   *)
(* function, interface) pushed to the root list, and the object literal of *)
(* a default export, whose option keys and bag entries are found by        *)
(* sub-scans that start again from the line of the export.  The loops of   *)
(* the sub-scans are recursions over the line index i (0-based, as in the  *)
(* source); a state with stop set has taken a break.                       *)
(***************************************************************************)
JsSkips(trimmedLine) ==
    \/ trimmedLine = ""
    \/ StartsWith(trimmedLine, "//")
    \/ StartsWith(trimmedLine, "*")
    \/ StartsWith(trimmedLine, "/**")

\* the skip test of the sub-scans
BagSkips(trimmedLine) ==
    \/ trimmedLine = ""
    \/ StartsWith(trimmedLine, "//")
    \/ StartsWith(trimmedLine, "*")

\* trimmedLine.includes('export default') && trimmedLine.includes('{')
IsExportDefault(trimmedLine) ==
    Includes(trimmedLine, "export default") /\ Includes(trimmedLine, "{")

\* [:=]  ['"]  \([^)]*\)
ColonEq == Cls({":", "="}, 1, 1)

Quote == {"'", "\""}

Parens == <<Lit("("), NCls({")"}, 0, Inf), Lit(")")>>

\* /^\s*key\s*[:=]\s*{/
KeyOpenRe(key) == <<Bol, Ws0, Lit(key), Ws0, ColonEq, Ws0, Lit("{")>>

\* /^\s*key\s*[:=]\s*(?:\([^)]*\)\s*=>\s*)?{/
KeyArrowRe(key) ==
    <<Bol, Ws0, Lit(key), Ws0, ColonEq, Ws0,
      Opt(Parens \o <<Ws0, Lit("=>"), Ws0>>), Lit("{")>>

\* /^\s*hook\s*\([^)]*\)\s*{/
HookRe(key) == <<Bol, Ws0, Lit(key), Ws0>> \o Parens \o <<Ws0, Lit("{")>>

LifecycleHooks ==
    <<"mounted", "created", "beforeMount", "beforeDestroy", "destroyed",
      "beforeCreate", "beforeUpdate", "updated", "activated", "deactivated">>

BagKeys == <<"methods", "computed", "watch", "props", "components">>

vuePropertyPatterns ==
    <<[name |-> "name", type |-> "property",
       pattern |-> <<Bol, Ws0, Lit("name"), Ws0, ColonEq, Ws0, Cls(Quote, 1, 1),
                     Open(1), NCls(Quote, 1, Inf), Close(1), Cls(Quote, 1, 1)>>],
      [name |-> "data", type |-> "data", pattern |-> KeyArrowRe("data")]>>
    \o [k \in 1..Len(BagKeys) |->
          [name |-> BagKeys[k], type |-> BagKeys[k], pattern |-> KeyOpenRe(BagKeys[k])]]
    \o [h \in 1..Len(LifecycleHooks) |->
          [name |-> LifecycleHooks[h], type |-> "lifecycle",
           pattern |-> HookRe(LifecycleHooks[h])]]
    \o <<[name |-> "setup", type |-> "setup", pattern |-> KeyArrowRe("setup")]>>

\* (?:['"]?)(\w+)(?:['"]?)
QuotedName == <<Cls(Quote, 0, 1)>> \o Name(1) \o <<Cls(Quote, 0, 1)>>

\* (?:function\s*\(|\(|async\s*\(|async\s*function\s*\()
FunctionOpen ==
    Alt(<<<<Lit("function"), Ws0, Lit("(")>>, <<Lit("(")>>,
          <<Lit("async"), Ws0, Lit("(")>>,
          <<Lit("async"), Ws0, Lit("function"), Ws0, Lit("(")>>>>)

\* the locals of a bag scan before its loop
BagStart ==
    [out |-> <<>>, braceCount |-> 0, inBag |-> FALSE, inReturn |-> FALSE,
     inMethodBody |-> FALSE, methodBodyBraceCount |-> 0, stop |-> FALSE]

\* the bags whose loop body is: skip, bag start, (return start,) count the
\* braces, match an entry, break when the count is back to zero
ComputedBag ==
    [key |-> "computed", type |-> CodeElementType.Property, paren |-> FALSE, return |-> FALSE,
     res |-> <<<<Bol, Ws0>> \o Name(1)
                \o <<Ws0, ColonEq, Ws0,
                     Alt(<<<<Lit("function"), Ws0, Lit("(")>>, <<Lit("(")>>, <<Lit("{")>>>>)>>>>]

DataBag ==
    [key |-> "data", type |-> CodeElementType.Variable, paren |-> TRUE, return |-> TRUE,
     res |-> <<<<Bol, Ws0>> \o QuotedName \o <<Ws0, ColonEq>>>>]

WatchBag ==
    [key |-> "watch", type |-> CodeElementType.Method, paren |-> FALSE, return |-> FALSE,
     res |-> <<<<Bol, Ws0>> \o QuotedName \o <<Ws0, ColonEq, Ws0, FunctionOpen>>,
               <<Bol, Ws0>> \o QuotedName \o <<Ws0, Lit("(")>>>>]

PropsBag ==
    [key |-> "props", type |-> CodeElementType.Property, paren |-> FALSE, return |-> FALSE,
     res |-> <<<<Bol, Ws0>> \o QuotedName \o <<Ws0, ColonEq>>>>]

BagEntry(bag, lines, startLineOffset, st, i, trimmedLine) ==
    With(FirstMatch(bag.res, trimmedLine),
         LAMBDA m :
           [st EXCEPT !.braceCount = @ + BraceDelta(trimmedLine),
                      !.out = IF m.ok
                              THEN Append(@, createElementAt(Group(m, trimmedLine, 1), bag.type,
                                                             i + 1 + startLineOffset, lines[i + 1],
                                                             lines, Undefined, Undefined, i))
                              ELSE @,
                      !.stop = st.braceCount + BraceDelta(trimmedLine) <= 0])

BagStep(bag, lines, startLineOffset, st, i) ==
    With(Trim(lines[i + 1]),
         LAMBDA trimmedLine :
           IF BagSkips(trimmedLine) THEN st
           ELSE IF Includes(trimmedLine, bag.key)
                   /\ (Includes(trimmedLine, "{") \/ (bag.paren /\ Includes(trimmedLine, "(")))
           THEN [st EXCEPT !.inBag = TRUE, !.braceCount = BraceDelta(trimmedLine)]
           ELSE IF ~st.inBag THEN st
           ELSE IF bag.return /\ Includes(trimmedLine, "return") /\ Includes(trimmedLine, "{")
           THEN [st EXCEPT !.inReturn = TRUE, !.braceCount = BraceDelta(trimmedLine)]
           ELSE IF bag.return /\ ~st.inReturn THEN st
           ELSE BagEntry(bag, lines, startLineOffset, st, i, trimmedLine))

\* /^\s*(\w+)\s*[:=]\s*(?:function\s*\(|\(|async\s*\(|async\s*function\s*\()/
\* and /^\s*(\w+)\s*\(/
MethodsBag ==
    [key |-> "methods", type |-> CodeElementType.Method,
     res |-> <<<<Bol, Ws0>> \o Name(1) \o <<Ws0, ColonEq, Ws0, FunctionOpen>>,
               <<Bol, Ws0>> \o Name(1) \o <<Ws0, Lit("(")>>>>]

\* a line inside a method body: only the braces are counted
MethodBodyLine(st, d) ==
    [st EXCEPT !.inMethodBody = st.methodBodyBraceCount + d > 0,
               !.methodBodyBraceCount = IF @ + d <= 0 THEN 0 ELSE @ + d,
               !.braceCount = @ + d,
               !.stop = st.braceCount + d <= 0]

\* a method definition line
MethodEntry(lines, startLineOffset, st, i, trimmedLine, m) ==
    With(ReMatch(<<Lit("("), Open(1), NCls({")"}, 0, Inf), Close(1), Lit(")")>>, trimmedLine),
         LAMBDA paramMatch :
           [st EXCEPT !.methodBodyBraceCount =
                          IF Includes(trimmedLine, "{") THEN BraceDelta(trimmedLine) ELSE @,
                      !.inMethodBody = Includes(trimmedLine, "{") /\ BraceDelta(trimmedLine) > 0,
                      !.out = Append(@, createElementAt(Group(m, trimmedLine, 1), MethodsBag.type,
                                                        i + 1 + startLineOffset, lines[i + 1], lines,
                                                        Undefined,
                                                        IF paramMatch.ok
                                                        THEN Group(paramMatch, trimmedLine, 1)
                                                        ELSE "",
                                                        i)),
                      !.braceCount = @ + BraceDelta(trimmedLine),
                      !.stop = st.braceCount + BraceDelta(trimmedLine) <= 0])

MethodsStep(lines, startLineOffset, st, i) ==
    With(Trim(lines[i + 1]),
         LAMBDA trimmedLine :
           IF BagSkips(trimmedLine) THEN st
           ELSE IF Includes(trimmedLine, MethodsBag.key) /\ Includes(trimmedLine, "{")
           THEN [st EXCEPT !.inBag = TRUE, !.braceCount = BraceDelta(trimmedLine)]
           ELSE IF ~st.inBag THEN st
           ELSE IF st.inMethodBody THEN MethodBodyLine(st, BraceDelta(trimmedLine))
           ELSE
             With(FirstMatch(MethodsBag.res, trimmedLine),
                  LAMBDA methodMatch :
                    IF methodMatch.ok
                    THEN MethodEntry(lines, startLineOffset, st, i, trimmedLine, methodMatch)
                    ELSE IF trimmedLine = "{"
                    THEN [st EXCEPT !.methodBodyBraceCount = 1, !.inMethodBody = TRUE,
                                    !.braceCount = @ + BraceDelta(trimmedLine)]
                    ELSE [st EXCEPT !.braceCount = @ + BraceDelta(trimmedLine),
                                    !.stop = st.braceCount + BraceDelta(trimmedLine) <= 0]))

\* for (let i = startLine - 1; i < endLine && i < lines.length; i++)
RECURSIVE BagLoop(_, _, _, _, _, _)
BagLoop(bag, lines, startLineOffset, st, i, endLine) ==
    IF st.stop \/ i >= endLine \/ i >= Len(lines) THEN st
    ELSE BagLoop(bag, lines, startLineOffset,
                 IF bag.key = MethodsBag.key THEN MethodsStep(lines, startLineOffset, st, i)
                 ELSE BagStep(bag, lines, startLineOffset, st, i),
                 i + 1, endLine)

parseMethodsContent(lines, startLine, endLine, startLineOffset) ==
    BagLoop(MethodsBag, lines, startLineOffset, BagStart, startLine - 1, endLine).out

parseComputedContent(lines, startLine, endLine, startLineOffset) ==
    BagLoop(ComputedBag, lines, startLineOffset, BagStart, startLine - 1, endLine).out

parseDataContent(lines, startLine, endLine, startLineOffset) ==
    BagLoop(DataBag, lines, startLineOffset, BagStart, startLine - 1, endLine).out

parseWatchContent(lines, startLine, endLine, startLineOffset) ==
    BagLoop(WatchBag, lines, startLineOffset, BagStart, startLine - 1, endLine).out

parsePropsContent(lines, startLine, endLine, startLineOffset) ==
    BagLoop(PropsBag, lines, startLineOffset, BagStart, startLine - 1, endLine).out

\* the content scan of a tracked property, by its type
ParseBag(type, lines, startLine, endLine, startLineOffset) ==
    CASE type = "methods" -> parseMethodsContent(lines, startLine, endLine, startLineOffset)
      [] type = "computed" -> parseComputedContent(lines, startLine, endLine, startLineOffset)
      [] type = "data" -> parseDataContent(lines, startLine, endLine, startLineOffset)
      [] type = "watch" -> parseWatchContent(lines, startLine, endLine, startLineOffset)
      [] type = "props" -> parsePropsContent(lines, startLine, endLine, startLineOffset)

\* a line while a property is tracked: when its block has ended its content
\* is scanned and given to the first property of its name
TrackedLine(lines, startLineOffset, st, i, cur) ==
    IF cur.braceCount > 0 THEN [st EXCEPT !.currentProperty = <<cur>>]
    ELSE [st EXCEPT !.currentProperty = Null,
                    !.properties[Min({p \in DOMAIN st.properties :
                                        st.properties[p].name = cur.name})].children =
                        ParseBag(cur.type, lines, cur.startLine, i + 1, startLineOffset)]

\* the first pattern of the table that the line matches, 0 when none does
RECURSIVE MatchingPattern(_, _, _)
MatchingPattern(patterns, k, trimmedLine) ==
    IF k > Len(patterns) THEN 0
    ELSE IF ReTest(patterns[k].pattern, trimmedLine) THEN k
    ELSE MatchingPattern(patterns, k + 1, trimmedLine)

\* the option keys tried, the element given the line of the fragment
OptionLineUnshifted(lines, startLineOffset, st, i, trimmedLine, prop) ==
    [st EXCEPT !.properties =
                   IF prop = 0 THEN @
                   ELSE Append(@, createElementAt(vuePropertyPatterns[prop].name,
                                                  CodeElementType.Property,
                                                  i + 1, lines[i + 1], lines,
                                                  Undefined, Undefined, i)),
               !.currentProperty =
                   IF prop # 0 /\ vuePropertyPatterns[prop].type
                                    \in {"methods", "computed", "data", "watch", "props"}
                   THEN <<[name |-> vuePropertyPatterns[prop].name, startLine |-> i + 1,
                           braceCount |-> BraceDelta(trimmedLine),
                           type |-> vuePropertyPatterns[prop].type]>>
                   ELSE @,
               !.stop = st.braceCount <= 0]

\* a line while no property is tracked: the option keys are tried
OptionLine(lines, startLineOffset, st, i, trimmedLine, prop) ==
    [st EXCEPT !.properties =
                   IF prop = 0 THEN @
                   ELSE Append(@, createElementAt(vuePropertyPatterns[prop].name,
                                                  CodeElementType.Property,
                                                  i + 1 + startLineOffset, lines[i + 1], lines,
                                                  Undefined, Undefined, i)),
               !.currentProperty =
                   IF prop # 0 /\ vuePropertyPatterns[prop].type
                                    \in {"methods", "computed", "data", "watch", "props"}
                   THEN <<[name |-> vuePropertyPatterns[prop].name, startLine |-> i + 1,
                           braceCount |-> BraceDelta(trimmedLine),
                           type |-> vuePropertyPatterns[prop].type]>>
                   ELSE @,
               !.stop = st.braceCount <= 0]

PropertiesStep(lines, startLineOffset, st, i) ==
    With(Trim(lines[i + 1]),
         LAMBDA trimmedLine :
           IF BagSkips(trimmedLine) THEN st
           ELSE IF IsExportDefault(trimmedLine)
           THEN [st EXCEPT !.inExportDefault = TRUE, !.braceCount = BraceDelta(trimmedLine)]
           ELSE IF ~st.inExportDefault THEN st
           ELSE IF st.currentProperty # Null
           THEN TrackedLine(lines, startLineOffset,
                            [st EXCEPT !.braceCount = @ + BraceDelta(trimmedLine)], i,
                            [st.currentProperty[1] EXCEPT
                               !.braceCount = @ + BraceDelta(trimmedLine)])
           ELSE OptionLine(lines, startLineOffset,
                           [st EXCEPT !.braceCount = @ + BraceDelta(trimmedLine)], i,
                           trimmedLine, MatchingPattern(vuePropertyPatterns, 1, trimmedLine)))

\* for (let i = startLine - 1; i < lines.length; i++)
RECURSIVE PropertiesLoop(_, _, _, _)
PropertiesLoop(lines, startLineOffset, st, i) ==
    IF st.stop \/ i >= Len(lines) THEN st
    ELSE PropertiesLoop(lines, startLineOffset,
                        PropertiesStep(lines, startLineOffset, st, i), i + 1)

parseExportDefaultProperties(lines, startLine, startLineOffset) ==
    PropertiesLoop(lines, startLineOffset,
                   [properties |-> <<>>, braceCount |-> 0, inExportDefault |-> FALSE,
                    currentProperty |-> Null, stop |-> FALSE],
                   startLine - 1).properties

\* /(?:export\s+)?(?:default\s+)?(?:abstract\s+)?class\s+(\w+)/
JsClassRe ==
    <<Opt(<<Lit("export"), Ws1>>), Opt(<<Lit("default"), Ws1>>), Opt(<<Lit("abstract"), Ws1>>),
      Lit("class"), Ws1>> \o Name(1)

\* /(?:export\s+)?(?:async\s+)?function\s+(\w+)\s*\(/
JsFunctionRe1 ==
    <<Opt(<<Lit("export"), Ws1>>), Opt(<<Lit("async"), Ws1>>), Lit("function"), Ws1>>
    \o Name(1) \o <<Ws0, Lit("(")>>

\* /(?:export\s+)?(?:const|let|var)\s+(\w+)\s*[=:]\s*(?:async\s*)?\(/
JsFunctionRe2 ==
    <<Opt(<<Lit("export"), Ws1>>), Words(<<"const", "let", "var">>), Ws1>>
    \o Name(1) \o <<Ws0, ColonEq, Ws0, Opt(<<Lit("async"), Ws0>>), Lit("(")>>

\* /(?:export\s+)?(\w+)\s*[:=]\s*(?:async\s*)?\(/
JsFunctionRe3 ==
    <<Opt(<<Lit("export"), Ws1>>)>>
    \o Name(1) \o <<Ws0, ColonEq, Ws0, Opt(<<Lit("async"), Ws0>>), Lit("(")>>

\* /(?:export\s+)?interface\s+(\w+)/
JsInterfaceRe == <<Opt(<<Lit("export"), Ws1>>), Lit("interface"), Ws1>> \o Name(1)

\* parseClass, parseFunction (its three patterns) and parseInterface, in the
\* order parse tries them
JsPatterns ==
    <<[re |-> JsClassRe, type |-> CodeElementType.Class],
      [re |-> JsFunctionRe1, type |-> CodeElementType.Function],
      [re |-> JsFunctionRe2, type |-> CodeElementType.Function],
      [re |-> JsFunctionRe3, type |-> CodeElementType.Function],
      [re |-> JsInterfaceRe, type |-> CodeElementType.Interface]>>

\* the locals of JavaScriptParser.parse before the loop
JsStart(lines, startLineOffset) ==
    [parser |-> "js", lines |-> lines, pc |-> "loop", lineNum |-> 0,
     startLineOffset |-> startLineOffset,
     inExportDefault |-> FALSE, exportDefaultStartLine |-> 0, braceCount |-> 0,
     elements |-> <<>>, result |-> <<>>]

\* the line of the default export: the export element and, when the object
\* literal stays open on the line, its option keys
JsExportDefault(s, trimmedLine) ==
    [s EXCEPT !.inExportDefault = TRUE,
              !.exportDefaultStartLine = s.lineNum + s.startLineOffset,
              !.braceCount = BraceDelta(trimmedLine),
              !.elements =
                  Append(@, CodeElement("export default", CodeElementType.Class, AccessDefault,
                                        s.lineNum + s.startLineOffset, Undefined, Undefined,
                                        Undefined, Undefined,
                                        IF BraceDelta(trimmedLine) > 0
                                        THEN parseExportDefaultProperties(s.lines, s.lineNum,
                                                                          s.startLineOffset)
                                        ELSE <<>>))]

\* one iteration of the loop of JavaScriptParser.parse
JsParseLine(s) ==
    With(Trim(s.lines[s.lineNum + 1]),
         LAMBDA trimmedLine :
           IF JsSkips(trimmedLine) THEN [s EXCEPT !.lineNum = @ + 1]
           ELSE IF IsExportDefault(trimmedLine)
           THEN JsExportDefault([s EXCEPT !.lineNum = @ + 1], trimmedLine)
           ELSE IF s.inExportDefault
           THEN [s EXCEPT !.lineNum = @ + 1,
                          !.braceCount = @ + BraceDelta(trimmedLine),
                          !.inExportDefault = s.braceCount + BraceDelta(trimmedLine) > 0]
           ELSE
             With(FirstDeclaration(JsPatterns, trimmedLine, s.lineNum + 1, s.lines),
                  LAMBDA found :
                    [s EXCEPT !.lineNum = @ + 1,
                              !.elements = IF found.ok THEN Append(@, found.el) ELSE @]))

\* the whole loop of JavaScriptParser.parse: the scan of a script region
RECURSIVE JsLoop(_)
JsLoop(s) == IF s.lineNum >= Len(s.lines) THEN s ELSE JsLoop(JsParseLine(s))

(***************************************************************************)
(* VueParser: the template region is skipped, the script region is         *)
(* collected and handed to a JavaScriptParser when its closing tag is met, *)
(* a style tag gives one element.                                          *)
(***************************************************************************)
\* new JavaScriptParser().parse(document, lines, startLineOffset)
parseScriptContent(lines, startLineOffset) == JsLoop(JsStart(lines, startLineOffset)).elements

\* the locals of VueParser.parse before the loop
VueStart(lines) ==
    [parser |-> "vue", lines |-> lines, pc |-> "loop", lineNum |-> 0,
     inScriptTag |-> FALSE, scriptContent |-> <<>>, scriptElement |-> Null,
     styleStartLine |-> 0, inTemplate |-> FALSE, inStyle |-> FALSE,
     elements |-> <<>>, result |-> <<>>]

\* the line of the opening script tag
VueScriptOpen(s) ==
    [s EXCEPT !.inScriptTag = TRUE,
              !.scriptElement = NextPath(s.elements, Null),
              !.elements = Append(@, CodeElement("script", CodeElementType.Module, AccessDefault,
                                                 s.lineNum, Undefined, Undefined, Undefined,
                                                 Undefined, <<>>))]

\* the line of the closing script tag: the collected lines are scanned with
\* the offset scriptStartLine + 1
VueScriptClose(s) ==
    With(IF Len(s.scriptContent) > 0 /\ s.scriptElement # Null
         THEN parseScriptContent(s.scriptContent, NodeAt(s.elements, s.scriptElement).line + 1)
         ELSE <<>>,
         LAMBDA scriptElements :
           [s EXCEPT !.inScriptTag = FALSE, !.scriptContent = <<>>, !.scriptElement = Null,
                     !.elements = IF Len(scriptElements) > 0
                                  THEN [@ EXCEPT ![s.scriptElement[1]].children = scriptElements]
                                  ELSE @])

\* a line that is neither in the template nor a script tag: it is collected
\* when the script region is open, and then tested for the style tags
VueOtherLine(s, line, trimmedLine) ==
    With(IF s.inScriptTag THEN [s EXCEPT !.scriptContent = Append(@, line)] ELSE s,
         LAMBDA s1 :
           IF StartsWith(trimmedLine, "<style")
           THEN [s1 EXCEPT !.styleStartLine = s.lineNum, !.inStyle = TRUE,
                           !.elements = Append(@, CodeElement(IF Includes(trimmedLine, "scoped")
                                                              THEN "style scoped" ELSE "style",
                                                              CodeElementType.Module, AccessDefault,
                                                              s.lineNum, Undefined, Undefined,
                                                              Undefined, Undefined, <<>>))]
           ELSE IF s.inStyle /\ Includes(trimmedLine, "</style>")
           THEN [s1 EXCEPT !.inStyle = FALSE]
           ELSE s1)

\* one iteration of the loop of VueParser.parse
VueParseLine(s0) ==
    With([s0 EXCEPT !.lineNum = @ + 1],
         LAMBDA s :
           With(Trim(s.lines[s.lineNum]),
                LAMBDA trimmedLine :
                  IF StartsWith(trimmedLine, "<template") THEN [s EXCEPT !.inTemplate = TRUE]
                  ELSE IF s.inTemplate /\ Includes(trimmedLine, "</template>")
                  THEN [s EXCEPT !.inTemplate = FALSE]
                  ELSE IF s.inTemplate THEN s
                  ELSE IF Includes(trimmedLine, "<script") THEN VueScriptOpen(s)
                  ELSE IF s.inScriptTag /\ Includes(trimmedLine, "</script>")
                  THEN VueScriptClose(s)
                  ELSE VueOtherLine(s, s.lines[s.lineNum], trimmedLine)))

\* the value VueParser.parse returns after the loop
VueResult(s) ==
    IF Len(s.elements) = 0 /\ Len(s.scriptContent) > 0
    THEN parseScriptContent(s.scriptContent, 0)
    ELSE s.elements

(***************************************************************************)
(* HtmlParser: script tags and the main block tags, each pushed to the     *)
(* root list.                                                              *)
(***************************************************************************)
HtmlSkips(trimmedLine) ==
    \/ trimmedLine = ""
    \/ StartsWith(trimmedLine, "<!--")
    \/ StartsWith(trimmedLine, "//")

\* key\s*=\s*["'](value)["'] with the value class as group g
Attribute(key, g, value) ==
    <<Lit(key), Ws0, Lit("="), Ws0, Cls(Quote, 1, 1), Open(g), value, Close(g),
      Cls(Quote, 1, 1)>>

\* /<script[^>]*>/
HtmlScriptRe == <<Lit("<script"), NCls({">"}, 0, Inf), Lit(">")>>

\* /<(div|section|article|main|header|footer|nav|aside)[^>]*
\*   (?:id\s*=\s*["'](\w+)["']|class\s*=\s*["']([\w\s-]+)["'])?/
HtmlMainRe ==
    <<Lit("<"), Open(1),
      Words(<<"div", "section", "article", "main", "header", "footer", "nav", "aside">>),
      Close(1), NCls({">"}, 0, Inf),
      Opt(<<Alt(<<Attribute("id", 2, W1),
                  Attribute("class", 3, Cls(WordCh \cup SpaceCh \cup {"-"}, 1, Inf))>>)>>)>>

\* idMatch ? idMatch[1] : (srcMatch ? srcMatch[1] : 'script')
HtmlParseScriptTag(line, lineNum, lines) ==
    IF ~ReTest(HtmlScriptRe, line) THEN NoElement
    ELSE
      With(ReMatch(Attribute("id", 1, W1), line),
           LAMBDA idMatch :
             With(ReMatch(Attribute("src", 1, NCls(Quote, 1, Inf)), line),
                  LAMBDA srcMatch :
                    Some(createElement(IF idMatch.ok THEN Group(idMatch, line, 1)
                                       ELSE IF srcMatch.ok THEN Group(srcMatch, line, 1)
                                       ELSE "script",
                                       CodeElementType.Module, lineNum, line, lines,
                                       Undefined, Undefined))))

\* id || className || tagName
HtmlParseMainElement(line, lineNum, lines) ==
    With(ReMatch(HtmlMainRe, line),
         LAMBDA elementMatch :
           IF ~elementMatch.ok THEN NoElement
           ELSE Some(createElement(IF Truthy(Group(elementMatch, line, 2))
                                   THEN Group(elementMatch, line, 2)
                                   ELSE IF Truthy(Group(elementMatch, line, 3))
                                   THEN Group(elementMatch, line, 3)
                                   ELSE Group(elementMatch, line, 1),
                                   CodeElementType.Module, lineNum, line, lines,
                                   Undefined, Undefined)))

HtmlStart(lines) ==
    [parser |-> "html", lines |-> lines, pc |-> "loop", lineNum |-> 0,
     elements |-> <<>>, result |-> <<>>]

\* one iteration of the loop of HtmlParser.parse
HtmlParseLine(s) ==
    With(Trim(s.lines[s.lineNum + 1]),
         LAMBDA trimmedLine :
           With(IF HtmlSkips(trimmedLine) THEN NoElement
                ELSE OrElse(HtmlParseScriptTag(trimmedLine, s.lineNum + 1, s.lines),
                            HtmlParseMainElement(trimmedLine, s.lineNum + 1, s.lines)),
                LAMBDA found :
                  [s EXCEPT !.lineNum = @ + 1,
                            !.elements = IF found.ok THEN Append(@, found.el) ELSE @]))

(***************************************************************************)
(* VueParser.parseTemplateContent: the markup scan with a stack of open    *)
(* tags.  A frame of the stack is [path, tagName, braceCount]: the path of *)
(* its element in the tree, the tag name the code keeps on the element,    *)
(* and the counter of the frame.                                           *)
(***************************************************************************)
\* /<([a-zA-Z][\w-]*)[^>]*>/
TplStartTagRe ==
    <<Lit("<"), Open(1), Cls(Lower \cup Upper, 1, 1), Cls(WordCh \cup {"-"}, 0, Inf), Close(1),
      NCls({">"}, 0, Inf), Lit(">")>>

\* /<\/(\w+)>/
TplEndTagRe == <<Lit("</")>> \o Name(1) \o <<Lit(">")>>

\* /\/\s*>$/.test(trimmedLine) || trimmedLine.match(/<[^>]+\/>/)
TplIsSelfClosing(trimmedLine) ==
    \/ ReTest(<<Lit("/"), Ws0, Lit(">"), Eol>>, trimmedLine)
    \/ ReTest(<<Lit("<"), NCls({">"}, 1, Inf), Lit("/>")>>, trimmedLine)

\* idMatch ? idMatch[1] : (classMatch ? classMatch[1] : tagName)
TplName(trimmedLine, tagName) ==
    With(ReMatch(Attribute("id", 1, NCls(Quote, 1, Inf)), trimmedLine),
         LAMBDA idMatch :
           With(ReMatch(Attribute("class", 1, NCls(Quote, 1, Inf)), trimmedLine),
                LAMBDA classMatch :
                  IF idMatch.ok THEN Group(idMatch, trimmedLine, 1)
                  ELSE IF classMatch.ok THEN Group(classMatch, trimmedLine, 1)
                  ELSE tagName))

\* the children of the element at path, path <<>> being the root list
RECURSIVE ChildrenAt(_, _)
ChildrenAt(elements, path) ==
    IF path = <<>> THEN elements ELSE ChildrenAt(elements[Head(path)].children, Tail(path))

\* parent.element.children.push(element), or elements.push(element)
RECURSIVE PushAt(_, _, _)
PushAt(elements, path, el) ==
    IF path = <<>> THEN Append(elements, el)
    ELSE [elements EXCEPT ![Head(path)].children = PushAt(@, Tail(path), el)]

\* stack.splice(j, 1)
Splice(stack, j) == SubSeq(stack, 1, j - 1) \o SubSeq(stack, j + 1, Len(stack))

\* the locals of parseTemplateContent before the loop; lineNum is the index i
TplStart(lines, startLine) ==
    [parser |-> "template", lines |-> lines, pc |-> "loop", lineNum |-> 0,
     startLine |-> startLine, stack |-> <<>>, elements |-> <<>>, result |-> <<>>]

\* a line with an opening tag: the element is added below the top of the
\* stack, and pushed unless it is closed on the line
TplOpenTag(s, trimmedLine, tagName) ==
    IF toLowerCase(tagName) \in {"script", "style", "template"} THEN s
    ELSE
      With(IF s.stack = <<>> THEN <<>> ELSE s.stack[Len(s.stack)].path,
           LAMBDA parent :
             With(CodeElement(TplName(trimmedLine, tagName), CodeElementType.Module,
                              AccessDefault, s.startLine + s.lineNum, Undefined, Undefined,
                              Undefined, Undefined, <<>>),
                  LAMBDA element :
                    [s EXCEPT !.elements = PushAt(@, parent, element),
                              !.stack =
                                  IF ~TplIsSelfClosing(trimmedLine)
                                     /\ ~Includes(trimmedLine, "</" \o tagName \o ">")
                                  THEN Append(@, [path |-> Append(parent,
                                                            Len(ChildrenAt(s.elements, parent)) + 1),
                                                  tagName |-> tagName, braceCount |-> 1])
                                  ELSE @]))

\* a line with a closing tag and no opening tag: the frames are searched
\* from the top of the stack for the tag name
TplCloseTag(s, tagName) ==
    With({j \in DOMAIN s.stack : s.stack[j].tagName = tagName},
         LAMBDA matching :
           IF matching = {} THEN s
           ELSE With(Max(matching),
                     LAMBDA j :
                       IF s.stack[j].braceCount - 1 <= 0
                       THEN [s EXCEPT !.stack = Splice(@, j)]
                       ELSE [s EXCEPT !.stack[j].braceCount = @ - 1]))

\* one iteration of the loop of parseTemplateContent
TplParseLine(s) ==
    With(Trim(s.lines[s.lineNum + 1]),
         LAMBDA trimmedLine :
           With([s EXCEPT !.lineNum = @ + 1],
                LAMBDA next :
                  IF trimmedLine = "" \/ StartsWith(trimmedLine, "<!--") THEN next
                  ELSE
                    With(ReMatch(TplStartTagRe, trimmedLine),
                         LAMBDA startTagMatch :
                           IF startTagMatch.ok
                           THEN [TplOpenTag(s, trimmedLine, Group(startTagMatch, trimmedLine, 1))
                                   EXCEPT !.lineNum = @ + 1]
                           ELSE
                             With(ReMatch(TplEndTagRe, trimmedLine),
                                  LAMBDA endTagMatch :
                                    IF endTagMatch.ok /\ s.stack # <<>>
                                    THEN TplCloseTag(next, Group(endTagMatch, trimmedLine, 1))
                                    ELSE next))))

(***************************************************************************)
(* FileStructureParser: the conversion of the symbols of the symbol        *)
(* provider.  A symbol is [name, kind, line, children] with line the       *)
(* 0-based range.start.line.                                               *)
(***************************************************************************)
FsWindow == 5

\* the block comment that starts on line i, read down to the declaration
RECURSIVE FsBlockComment(_, _, _, _, _)
FsBlockComment(lines, i, j, lineIndex, comment) ==
    IF j > lineIndex \/ j >= Len(lines) THEN comment
    ELSE
      With(Trim(lines[j + 1]),
           LAMBDA commentLine :
             IF Includes(commentLine, "*/")
             THEN comment \o SubstringTo(commentLine, IndexOf(commentLine, "*/"))
             ELSE FsBlockComment(lines, i, j + 1, lineIndex,
                                 comment \o (IF j = i
                                             THEN SubstringFrom(commentLine,
                                                                IndexOf(commentLine, "/*") + 2)
                                             ELSE " " \o commentLine)))

\* the upward search of extractComment from line i
RECURSIVE FsCommentFrom(_, _, _)
FsCommentFrom(lines, lineIndex, i) ==
    IF i < 0 \/ i < lineIndex - FsWindow THEN Undefined
    ELSE
      With(Trim(lines[i + 1]),
           LAMBDA line :
             IF StartsWith(line, "//") THEN Trim(SubstringFrom(line, 2))
             ELSE IF Includes(line, "/*")
             THEN OrUndefined(Trim(FsBlockComment(lines, i, i, lineIndex, "")))
             ELSE IF StartsWith(line, "///") THEN Trim(SubstringFrom(line, 3))
             ELSE IF line # "" /\ ~StartsWith(line, "*") THEN Undefined
             ELSE FsCommentFrom(lines, lineIndex, i - 1))

FsExtractComment(lines, lineIndex) == FsCommentFrom(lines, lineIndex, lineIndex - 1)

\* /(?:public|private|protected|internal)?\s*(\w+)\s+(\w+)\s*\(([^)]*)\)/
FsMethodRe ==
    <<Opt(<<Words(AccessWords)>>), Ws0>> \o Name(1) \o <<Ws1>> \o Name(2) \o <<Ws0>>
    \o ParamList(3)

\* /(?:function|const|let|var)?\s*(\w+)\s*\(([^)]*)\)(?::\s*(\w+))?/
FsFuncRe ==
    <<Opt(<<Words(<<"function", "const", "let", "var">>)>>), Ws0>> \o Name(1) \o <<Ws0>>
    \o ParamList(2) \o <<Opt(<<Lit(":"), Ws0>> \o Name(3))>>

extractMethodInfo(lineText, fileExt) ==
    IF fileExt \in {".cs", ".java"}
    THEN With(ReMatch(FsMethodRe, lineText),
              LAMBDA methodMatch :
                IF methodMatch.ok
                THEN [returnType |-> Group(methodMatch, lineText, 1),
                      parameters |-> GroupOrEmpty(methodMatch, lineText, 3)]
                ELSE [returnType |-> Undefined, parameters |-> Undefined])
    ELSE IF fileExt \in {".js", ".ts"}
    THEN With(ReMatch(FsFuncRe, lineText),
              LAMBDA funcMatch :
                IF funcMatch.ok
                THEN [returnType |-> Group(funcMatch, lineText, 3),
                      parameters |-> GroupOrEmpty(funcMatch, lineText, 2)]
                ELSE [returnType |-> Undefined, parameters |-> Undefined])
    ELSE [returnType |-> Undefined, parameters |-> Undefined]

symbolKindToElementType(kind) ==
    IF kind \in {"Class", "Interface", "Method", "Function", "Property", "Variable", "Field",
                 "Namespace", "Enum", "Constructor", "Module"}
    THEN CodeElementType[kind]
    ELSE CodeElementType.Class

symbolToCodeElement(symbol, lines, fileExt) ==
    With(IF symbol.line < Len(lines) THEN lines[symbol.line + 1] ELSE "",
         LAMBDA lineText :
           With(IF symbol.kind \in {"Method", "Function"}
                THEN extractMethodInfo(lineText, fileExt)
                ELSE [returnType |-> Undefined, parameters |-> Undefined],
                LAMBDA methodInfo :
                  CodeElement(symbol.name, symbolKindToElementType(symbol.kind),
                              extractAccessModifier(lineText), symbol.line + 1,
                              FsExtractComment(lines, symbol.line),
                              methodInfo.returnType, methodInfo.parameters, Undefined, <<>>)))

\* a symbol converted to one of these kinds is given no children
OnlyMethodsAreCallable(type) == type = CodeElementType.Method

IsCallable(type) ==
    type \in {CodeElementType.Method, CodeElementType.Function, CodeElementType.Constructor}

RECURSIVE symbolsToCodeElements(_, _, _)
symbolsToCodeElements(symbols, lines, fileExt) ==
    [k \in DOMAIN symbols |->
       With(symbolToCodeElement(symbols[k], lines, fileExt),
            LAMBDA element :
              IF Len(symbols[k].children) > 0 /\ ~IsCallable(element.type)
              THEN [element EXCEPT
                      !.children = symbolsToCodeElements(symbols[k].children, lines, fileExt)]
              ELSE element)] \o <<>>

\* symbols.filter(symbol => symbol.kind !== vscode.SymbolKind.Module)
FilteredSymbols(symbols) == SelectSeq(symbols, LAMBDA symbol : symbol.kind # "Module")

(***************************************************************************)
(* ParserFactory: the static extension-to-class map                        *)
(***************************************************************************)
\* CodeStructViewProvider before its constructor has loaded the marks: the
\* map nodeMarks is empty, as is the key 'nodeMarks' of the workspace state,
\* and no update of the workspace state is pending.  A set of marks is a set
\* of <<node uri, color>> pairs with at most one pair per uri.
ViewInit ==
    /\ nodeMarks = {}
    /\ workspaceState = {}
    /\ updates = <<>>

DefaultParsers ==
    (".cs" :> "CSharpParser") @@ (".java" :> "JavaParser") @@ (".js" :> "JavaScriptParser")
    @@ (".ts" :> "JavaScriptParser") @@ (".vue" :> "VueParser")
    @@ (".html" :> "HtmlParser") @@ (".htm" :> "HtmlParser")

(***************************************************************************)
(* The files scanned.  A C# file is a header (the declarations that open   *)
(* the enclosing scopes), up to MaxMembers member blocks and a footer:     *)
(* the closing braces of the header, or nothing (a truncated file).        *)
(***************************************************************************)
MaxMembers == 2

RECURSIVE Flatten(_)
Flatten(blocks) ==
    IF blocks = <<>> THEN <<>> ELSE Head(blocks) \o Flatten(Tail(blocks))

\* the sequences of at most n blocks of the library lib
BlockSeqs(lib, n) ==
    UNION {{[i \in 1..k |-> lib[f[i]]] : f \in [1..k -> DOMAIN lib]} : k \in 0..n}

CsHeaders ==
    {<<>>,
     <<"namespace Foo {">>,
     <<"namespace Foo {", "  class Bar {">>,
     <<"public class Bar {">>}

CsMembers ==
    <<<<"    public Bar() {}">>,
      <<"    public void Baz(int x) {}">>,
      <<"    public void Bar() {}">>,
      <<"    public Bar Bar() {}">>,
      <<"    /// <summary>Add two numbers</summary>",
        "    /// <param name=\"a\">first</param>",
        "    public int Add(int a,int b){}">>,
      <<"    public int Sum(int n)", "    {",
        "        static int Dbl(int a) { return a + a; }", "    }">>,
      <<"    public int Count { get; set; }">>,
      <<"    private int total = 0;">>>>

\* members with a body after the opening brace, and a comment with a brace
CsBodies ==
    <<<<"    public void Run() {", "        const int limit = 0;", "    }">>,
      <<"    // end of the region }">>,
      <<"    private int total = 0;">>,
      <<"    public int Sum(int n)", "    {", "        const int limit = 0;",
        "        static Bar Bar() { return null; }", "    }">>,
      <<"    private Options settings = new Options { Size = 1 };">>,
      <<"    // */*/ restored", "    public void Baz(int x) {}">>>>

\* k closing braces
CsFooter(k) == [i \in 1..k |-> "}"]

\* a header, at most MaxMembers member blocks, and the closing braces of the
\* header or, for a file cut short, only some of them
CsFilesOf(n) ==
    UNION {{h \o Flatten(b) \o CsFooter(k) : b \in BlockSeqs(CsMembers, n),
                                             k \in 0..Len(h)} : h \in CsHeaders}

\* a header, at most two of the blocks of CsBodies, and the closing braces
CsBodyFiles ==
    UNION {{h \o Flatten(b) \o CsFooter(Len(h)) : b \in BlockSeqs(CsBodies, 2)} : h \in CsHeaders}

\* a file with unbalanced braces: the class is opened below the floor of its
\* namespace, and a member follows the brace that closes the namespace
CsUnbalanced ==
    <<"namespace Foo }", "  class Bar {{", "    public void Baz(int x) {}", "}",
      "    private int total = 0;", "}">>

\* a class opened and closed on its declaration line, and a class after it
CsOneLineClassFiles ==
    {<<"public class Empty {}", "public class Bar {", "    public void Baz(int x) {}", "}">>,
     <<"namespace Foo {", "  class Empty { }", "  class Bar {", "    private int total = 0;",
       "  }", "}">>}

\* methods whose name or parameter holds the letters of an accessor keyword
CsAccessorNameFiles ==
    {<<"public class Bar {", "    public void Reset() {", "    }", "}">>,
     <<"public class Bar {", "    public int Count(int offset) {", "        return offset;",
       "    }", "}">>}

CsFiles ==
    CsFilesOf(MaxMembers) \cup CsBodyFiles \cup {CsUnbalanced} \cup CsOneLineClassFiles
      \cup CsAccessorNameFiles

(***************************************************************************)
(* The C# scan as a state machine: one step per line, then the return.     *)
(***************************************************************************)
CsInit ==
    /\ parsers = DefaultParsers
    /\ ViewInit
    /\ \E f \in CsFiles : scans = <<CsStart(f)>>

CsScanLine(t) ==
    /\ scans[t].parser = "cs"
    /\ scans[t].pc = "loop"
    /\ scans[t].lineNum < Len(scans[t].lines)
    /\ scans' = [scans EXCEPT ![t] = CsParseLine(@)]
    /\ UNCHANGED <<parsers, viewVars>>

\* a return that gives up the tree when a class is still open at the end
ReturnsNothingWhenOpen(t) ==
    /\ scans[t].pc = "loop"
    /\ scans[t].lineNum = Len(scans[t].lines)
    /\ scans' = [scans EXCEPT ![t].pc = "done",
                              ![t].result = IF scans[t].currentClass # Null THEN <<>>
                                            ELSE scans[t].elements]
    /\ UNCHANGED <<parsers, viewVars>>

\* return elements, the end of every parse
ScanReturn(t) ==
    /\ scans[t].pc = "loop"
    /\ scans[t].lineNum = Len(scans[t].lines)
    /\ scans' = [scans EXCEPT ![t].pc = "done",
                              ![t].result = IF scans[t].parser = "vue" THEN VueResult(scans[t])
                                            ELSE scans[t].elements]
    /\ UNCHANGED <<parsers, viewVars>>

CsNext ==
    \/ \E t \in DOMAIN scans : CsScanLine(t)
    \/ \E t \in DOMAIN scans : ScanReturn(t)

SpecCs == CsInit /\ [][CsNext]_vars

(***************************************************************************)
(* The files of the other kinds.  A file is [ext, lines, symbols]: the     *)
(* extension of its path, its lines, and the symbols the symbol provider   *)
(* returns for it.                                                         *)
(***************************************************************************)
File(ext, lines, symbols) == [ext |-> ext, lines |-> lines, symbols |-> symbols]

JavaBlocks ==
    <<<<"package com.foo;">>,
      <<"public class Foo {", "  public void bar() {}", "}">>,
      <<"// a shape", "public interface Shape {", "}">>,
      <<"enum Color { RED, GREEN }">>>>

JsDeclarations ==
    <<<<"// helper", "function helper(a) {", "}">>,
      <<"export class Widget {", "}">>,
      <<"const go = async () => {", "}">>,
      <<"export interface Shape {", "}">>>>

\* the options of a default export
JsOptions ==
    <<<<"  name: 'App',">>,
      <<"  data: () => {", "    return {", "      count: 0", "    }", "  },">>,
      <<"  methods: {", "    foo() {}", "  },">>,
      <<"  methods: {", "    // adds", "    add(a, b) {", "      return a + b", "    },",
        "  },">>,
      <<"  methods: { foo() {} },">>,
      <<"  computed: {", "    total: function () {", "    }", "  },">>,
      <<"  watch: {", "    count(newVal) {", "    }", "  },">>,
      <<"  props: {", "    title: String", "  },">>,
      <<"  mounted() {", "  },">>>>

\* the default export written on one line, and the ones written option by
\* option
JsObjectsOf(n) ==
    {<<"export default { methods: { foo() {} } }">>}
    \cup {<<"export default {">> \o Flatten(b) \o <<"}">> : b \in BlockSeqs(JsOptions, n)}

JsScriptsOf(n) ==
    {Flatten(b) : b \in BlockSeqs(JsDeclarations, n)}
    \cup JsObjectsOf(n)
    \cup {JsDeclarations[1] \o o : o \in JsObjectsOf(n - 1)}

\* template bodies: plain markup, a nested template, text that looks like
\* a script or style tag
TemplateBodies ==
    {<<"  <div id=\"x\"></div>">>,
     <<"  <style-guide />">>,
     <<"  <script-loader src=\"a.js\" />">>,
     <<"  <template v-if=\"ok\">", "    <p>ok</p>", "  </template>">>,
     <<"  <template v-if=\"ok\">", "  </template>", "  <style-guide />">>,
     <<"  <template #head>", "  </template>", "  <script-loader src=\"a.js\" />", "  a()">>}

\* a template region, opened and closed on lines of their own or on one
\* line, followed by a script region
TemplateFiles ==
    {<<"<template>">> \o body \o <<"</template>", "<script>", "function helper(a) {", "}",
                                   "</script>">> : body \in TemplateBodies}
    \cup {<<"<template><div id=\"x\"></div></template>", "<script>", "function helper(a) {",
            "}", "</script>">>}

VueFilesOf(n) ==
    {<<"<script>">> \o js \o <<"</script>">> : js \in JsScriptsOf(n)}
    \cup {<<"<template>", "  <div id=\"x\"></div>", "</template>", "<script setup>">> \o js
          \o <<"</script>", "<style scoped>", "</style>">> : js \in JsScriptsOf(n)}
    \cup JsScriptsOf(n)
    \cup TemplateFiles

HtmlLines ==
    <<<<"<div id=\"x\"><span>...</span></div>">>,
      <<"<div id=\"x\">">>,
      <<"<span>...</span>">>,
      <<"</div>">>,
      <<"<script src=\"a.js\"></script>">>,
      <<"<section class=\"hero\">">>,
      <<"<!-- note -->">>>>

\* the file the symbols below are the symbols of
SymbolLines ==
    <<"// a counter", "export class Counter {", "  /* adds one */",
      "  public add(n: number): number {", "    const x = n + 1", "  }", "}",
      "function reset(a, b) {", "  let y = 0", "}">>

Symbol(name, kind, line, children) ==
    [name |-> name, kind |-> kind, line |-> line, children |-> children]

Symbols ==
    <<<<Symbol("counter", "Module", 0, <<>>)>>,
      <<Symbol("Counter", "Class", 1, <<>>)>>,
      <<Symbol("Counter", "Class", 1,
               <<Symbol("add", "Method", 3, <<Symbol("x", "Variable", 4, <<>>)>>)>>)>>,
      <<Symbol("Counter", "Class", 1,
               <<Symbol("constructor", "Constructor", 3,
                        <<Symbol("x", "Variable", 4, <<>>)>>),
                 Symbol("add", "Method", 3, <<>>)>>)>>,
      <<Symbol("reset", "Function", 7, <<Symbol("y", "Variable", 8, <<>>)>>)>>,
      <<Symbol("reset", "Function", 7, <<>>)>>,
      <<Symbol("LIMIT", "Constant", 4, <<>>)>>>>

SymbolFiles ==
    {File(ext, SymbolLines, Flatten(b)) : ext \in {".ts", ".java", ".py"},
                                          b \in BlockSeqs(Symbols, MaxMembers)}

\* default exports with an object literal inside the body of a hook and
\* inside the block of the components option
JsNestedKeyFiles ==
    {<<"export default {", "  mounted() {", "    const opts = {", "      name: 'inner',",
       "    }", "  },", "}">>,
     <<"export default {", "  components: {", "    methods: {", "    },", "  },", "}">>}

Files ==
    {File(".cs", f, <<>>) : f \in CsFilesOf(MaxMembers - 1)}
    \cup {File(".js", f, <<>>) : f \in JsNestedKeyFiles}
    \cup {File(".java", Flatten(b), <<>>) : b \in BlockSeqs(JavaBlocks, MaxMembers)}
    \cup {File(ext, f, <<>>) : ext \in {".js", ".TS"}, f \in JsScriptsOf(MaxMembers)}
    \cup {File(".vue", f, <<>>) : f \in VueFilesOf(MaxMembers - 1)}
    \cup {File(".html", Flatten(b), <<>>) : b \in BlockSeqs(HtmlLines, MaxMembers)}
    \cup SymbolFiles

(***************************************************************************)
(* parseFile as a state machine: the choice between the custom parser and  *)
(* the symbol conversion, then, for a custom parser, one step per line and *)
(* the return.                                                             *)
(***************************************************************************)
\* a call of parseFile that has read the file and its symbols
Pending(file) ==
    [parser |-> "none", pc |-> "start", ext |-> file.ext, lines |-> file.lines,
     symbols |-> file.symbols, result |-> <<>>]

\* the locals of the parse of a new instance of the class
NewParser(class, lines) ==
    CASE class = "CSharpParser" -> CsStart(lines)
      [] class = "JavaParser" -> JavaStart(lines)
      [] class = "JavaScriptParser" -> JsStart(lines, 0)
      [] class = "VueParser" -> VueStart(lines)
      [] class = "HtmlParser" -> HtmlStart(lines)
      [] OTHER -> [parser |-> "throws", lines |-> lines, pc |-> "parse", result |-> <<>>]

\* a factory that hands out one scanner per class, whose element list
\* outlives the scan
SharedScanner(s) ==
    IF toLowerCase(s.ext) \in DOMAIN parsers
    THEN With(NewParser(parsers[toLowerCase(s.ext)], s.lines),
              LAMBDA fresh :
                With({u \in DOMAIN scans : scans[u].parser = fresh.parser},
                     LAMBDA running :
                       IF running = {} THEN fresh
                       ELSE [fresh EXCEPT !.elements =
                                scans[CHOOSE u \in running : TRUE].elements]))
    ELSE [s EXCEPT !.pc = "done", !.result = <<>>]

\* ParserFactory.createParser: a new instance of the class registered for
\* the lower-cased extension, or null
createParser(s) ==
    With(toLowerCase(ExtensionOf(s.ext)),
         LAMBDA ext :
           IF ext \in DOMAIN parsers THEN NewParser(parsers[ext], s.lines)
           ELSE [s EXCEPT !.pc = "done", !.result = <<>>])

\* parseFile takes the custom parser: for .cs and .vue, and when no symbol
\* is left after the Module symbols are dropped
UseCustomParser(t) ==
    /\ scans[t].pc = "start"
    /\ scans[t].ext \in {".cs", ".vue"} \/ FilteredSymbols(scans[t].symbols) = <<>>
    /\ scans' = [scans EXCEPT ![t] = createParser(@)]
    /\ UNCHANGED <<parsers, viewVars>>

\* parseFile converts the symbols of the symbol provider
ConvertSymbols(t) ==
    /\ scans[t].pc = "start"
    /\ scans[t].ext \notin {".cs", ".vue"}
    /\ FilteredSymbols(scans[t].symbols) # <<>>
    /\ scans' = [scans EXCEPT ![t].parser = "symbols", ![t].pc = "done",
                              ![t].result = symbolsToCodeElements(
                                               FilteredSymbols(scans[t].symbols),
                                               scans[t].lines, scans[t].ext)]
    /\ UNCHANGED <<parsers, viewVars>>

JavaScanLine(t) ==
    /\ scans[t].parser = "java"
    /\ scans[t].pc = "loop"
    /\ scans[t].lineNum < Len(scans[t].lines)
    /\ scans' = [scans EXCEPT ![t] = JavaParseLine(@)]
    /\ UNCHANGED <<parsers, viewVars>>

JsScanLine(t) ==
    /\ scans[t].parser = "js"
    /\ scans[t].pc = "loop"
    /\ scans[t].lineNum < Len(scans[t].lines)
    /\ scans' = [scans EXCEPT ![t] = JsParseLine(@)]
    /\ UNCHANGED <<parsers, viewVars>>

VueScanLine(t) ==
    /\ scans[t].parser = "vue"
    /\ scans[t].pc = "loop"
    /\ scans[t].lineNum < Len(scans[t].lines)
    /\ scans' = [scans EXCEPT ![t] = VueParseLine(@)]
    /\ UNCHANGED <<parsers, viewVars>>

HtmlScanLine(t) ==
    /\ scans[t].parser = "html"
    /\ scans[t].pc = "loop"
    /\ scans[t].lineNum < Len(scans[t].lines)
    /\ scans' = [scans EXCEPT ![t] = HtmlParseLine(@)]
    /\ UNCHANGED <<parsers, viewVars>>

Init ==
    /\ parsers = DefaultParsers
    /\ ViewInit
    /\ \E f \in Files : scans = <<Pending(f)>>

Next ==
    \/ \E t \in DOMAIN scans : UseCustomParser(t)
    \/ \E t \in DOMAIN scans : ConvertSymbols(t)
    \/ \E t \in DOMAIN scans : CsScanLine(t)
    \/ \E t \in DOMAIN scans : JavaScanLine(t)
    \/ \E t \in DOMAIN scans : JsScanLine(t)
    \/ \E t \in DOMAIN scans : VueScanLine(t)
    \/ \E t \in DOMAIN scans : HtmlScanLine(t)
    \/ \E t \in DOMAIN scans : ScanReturn(t)

Spec == Init /\ [][Next]_vars

(***************************************************************************)
(* Three calls of parseFile in flight at once: two of the same file and    *)
(* one of another file.  The calls are async functions on one thread, so   *)
(* their steps interleave in any order.                                    *)
(***************************************************************************)
MaxLines == 3

\* the files of one block
OneBlockFiles ==
    {File(".cs", f, <<>>) : f \in CsFilesOf(1)}
    \cup {File(".java", Flatten(b), <<>>) : b \in BlockSeqs(JavaBlocks, 1)}
    \cup {File(".js", f, <<>>) : f \in JsScriptsOf(1)}
    \cup {File(".vue", f, <<>>) : f \in VueFilesOf(1)}
    \cup {File(".html", Flatten(b), <<>>) : b \in BlockSeqs(HtmlLines, 1)}
    \cup {File(".ts", SymbolLines, Flatten(b)) : b \in BlockSeqs(Symbols, 1)}

\* those of at most MaxLines lines, and those with symbols
ShortFiles == {f \in OneBlockFiles : Len(f.lines) <= MaxLines \/ f.symbols # <<>>}

\* the file scanned between the two scans of the same file
OtherFiles ==
    {File(".cs", <<"namespace Foo {", "  class Bar {", "    public Bar(int a) {}">>, <<>>)}

InitTwo ==
    /\ parsers = DefaultParsers
    /\ ViewInit
    /\ \E f \in ShortFiles, g \in OtherFiles :
         scans = <<Pending(f), Pending(g), Pending(f)>>

SpecTwo == InitTwo /\ [][Next]_vars

(***************************************************************************)
(* ParserFactory with registrations at run time.  A caller registers one   *)
(* of the parser classes of the repository, or a class of its own whose    *)
(* parse throws, for an extension written in any case.                     *)
(***************************************************************************)
ParserClasses == {"CSharpParser", "HtmlParser", "ThrowingParser"}

\* the extensions callers register
RegisteredExtensions == {".py", ".PY", ".cs"}

\* a registration that keeps the key as it was written
RegistersKeyAsGiven(extension, ParserClass) ==
    [k \in DOMAIN parsers \cup {extension} |->
       IF k = extension THEN ParserClass ELSE parsers[k]]

\* this.parsers.set(extension.toLowerCase(), ParserClass)
registerParser(extension, ParserClass) ==
    With(toLowerCase(extension),
         LAMBDA key :
           [k \in DOMAIN parsers \cup {key} |-> IF k = key THEN ParserClass ELSE parsers[k]])

RegisterParser(extension, ParserClass) ==
    /\ parsers' = registerParser(extension, ParserClass)
    /\ UNCHANGED <<scans, viewVars>>

\* the paths callers ask the factory about: extensions registered at the
\* start and later, in lower and upper case; none registered; no dot; a dot
\* in a directory name only
RegistryPaths ==
    {"/src/a.cs", "/src/B.HTML", "/src/c.py", "/src/d.PY", "/src/v1.2/e.go", "Makefile",
     "/my.dir/notes", ".vue"}

\* an isSupported that looks the extension up as it is written
LooksUpAsWritten(filePath) == ExtensionOf(filePath) \in DOMAIN parsers

\* ParserFactory.isSupported: this.parsers.has(ext), ext the lower-cased
\* text of the path from its last dot on
isSupported(filePath) == toLowerCase(ExtensionOf(filePath)) \in DOMAIN parsers

\* ParserFactory.getSupportedExtensions: the keys of the map
getSupportedExtensions == DOMAIN parsers

\* a call of isSupported: it reads the map
IsSupported(filePath) ==
    /\ isSupported(filePath) \in BOOLEAN
    /\ UNCHANGED vars

\* a call of getSupportedExtensions: it copies the keys of the map
GetSupportedExtensions ==
    /\ getSupportedExtensions \subseteq DOMAIN parsers
    /\ UNCHANGED vars

\* a parseWithCustomParser without its try: the exception reaches the caller
ParseRaises(t) ==
    /\ scans[t].parser = "throws"
    /\ scans[t].pc = "parse"
    /\ scans' = [scans EXCEPT ![t].pc = "raised"]
    /\ UNCHANGED <<parsers, viewVars>>

\* parser.parse throws: parseWithCustomParser catches and returns []
ParserThrows(t) ==
    /\ scans[t].parser = "throws"
    /\ scans[t].pc = "parse"
    /\ scans' = [scans EXCEPT ![t].pc = "done", ![t].result = <<>>]
    /\ UNCHANGED <<parsers, viewVars>>

\* the text of the files scanned under registrations
RegistryLines == <<"<script>", "class Bar {", "</script>">>

\* the extensions of the files: registered at the start, registered later,
\* never registered, and a path without a dot
RegistryExtensions ==
    {".cs", ".java", ".js", ".vue", ".htm", ".HTML", ".py", ".PY", ".Py", ".go", "Makefile"}

RegistryFiles ==
    {File(ext, RegistryLines, <<>>) : ext \in RegistryExtensions}
    \cup {File(ext, SymbolLines, Symbols[2]) : ext \in {".py", ".go"}}

RegistryInit ==
    /\ parsers = DefaultParsers
    /\ ViewInit
    /\ \E f \in RegistryFiles : scans = <<Pending(f)>>

RegistryNext ==
    \/ \E extension \in RegisteredExtensions, ParserClass \in ParserClasses :
         RegisterParser(extension, ParserClass)
    \/ \E t \in DOMAIN scans : ParserThrows(t)
    \/ \E filePath \in RegistryPaths : IsSupported(filePath)
    \/ GetSupportedExtensions
    \/ Next

SpecRegistry == RegistryInit /\ [][RegistryNext]_vars

(***************************************************************************)
(* The files the structure view and the workspace scan take for parsable.  *)
(***************************************************************************)
supportedExtensions == {".cs", ".java", ".js", ".ts", ".vue", ".html"}

\* getAllParsableFiles and getChildren: the lower-cased extension of the
\* file name is looked up in supportedExtensions
isParsableFile(ext) == toLowerCase(ext) \in supportedExtensions

(***************************************************************************)
(* The node marks of CodeStructViewProvider.  markNode, removeNodeMark and *)
(* clearAllMarks change the map nodeMarks and call saveNodeMarks, which    *)
(* runs up to its call of workspaceState.update in the same turn and then  *)
(* awaits it; the updates reach the store in the order of their calls, and *)
(* the handler goes on (refresh) when its update has.  workspaceState.get  *)
(* returns the value of the latest update called.                          *)
(***************************************************************************)
MaxPending == 2

NodeUris == {"file:///a.cs#Foo", "file:///a.cs#Bar"}

Colors == {"#FF0000", "#0000FF"}

\* Map.prototype.set, delete and has on a set of <<node uri, color>> pairs
MapSet(marks, uriString, color) ==
    {m \in marks : m[1] # uriString} \cup {<<uriString, color>>}

MapDelete(marks, uriString) == {m \in marks : m[1] # uriString}

MapHas(marks, uriString) == \E m \in marks : m[1] = uriString

\* the maps of marks
MarkSets ==
    {marks \in SUBSET (NodeUris \X Colors) :
       \A m \in marks : \A n \in marks : m[1] = n[1] => m = n}

\* context.workspaceState.get('nodeMarks', {})
savedMarks == IF updates # <<>> THEN updates[Len(updates)] ELSE workspaceState

\* a save that skips the update when no mark is left
SavesOnlyWhenMarked(marks) == IF marks = {} THEN updates ELSE Append(updates, marks)

\* saveNodeMarks up to its await: the marks are copied to an object and
\* workspaceState.update is called with it
saveNodeMarks(marks) == Append(updates, marks)

\* loadNodeMarks: the map is cleared and filled from the workspace state
LoadNodeMarks ==
    /\ nodeMarks' = savedMarks
    /\ UNCHANGED <<scans, parsers, workspaceState, updates>>

\* markNode up to the await of saveNodeMarks
MarkNode(uriString, color) ==
    /\ Len(updates) < MaxPending
    /\ nodeMarks' = MapSet(nodeMarks, uriString, color)
    /\ updates' = saveNodeMarks(MapSet(nodeMarks, uriString, color))
    /\ UNCHANGED <<scans, parsers, workspaceState>>

\* removeNodeMark up to the await of saveNodeMarks; nothing is done when the
\* node has no mark
RemoveNodeMark(uriString) ==
    /\ Len(updates) < MaxPending
    /\ IF MapHas(nodeMarks, uriString)
       THEN /\ nodeMarks' = MapDelete(nodeMarks, uriString)
            /\ updates' = saveNodeMarks(MapDelete(nodeMarks, uriString))
       ELSE UNCHANGED <<nodeMarks, updates>>
    /\ UNCHANGED <<scans, parsers, workspaceState>>

\* clearAllMarks up to the await of saveNodeMarks
ClearAllMarks ==
    /\ Len(updates) < MaxPending
    /\ nodeMarks' = {}
    /\ updates' = saveNodeMarks({})
    /\ UNCHANGED <<scans, parsers, workspaceState>>

\* the oldest pending update reaches the store and the handler that awaits
\* it goes on: it refreshes the views
UpdateDone ==
    /\ updates # <<>>
    /\ workspaceState' = Head(updates)
    /\ updates' = Tail(updates)
    /\ UNCHANGED <<scans, parsers, nodeMarks>>

\* the constructor has loaded the marks an earlier session stored, all of
\* them red
MarksInit ==
    /\ scans = <<>>
    /\ parsers = DefaultParsers
    /\ workspaceState \in {marks \in MarkSets : \A m \in marks : m[2] = "#FF0000"}
    /\ nodeMarks = workspaceState
    /\ updates = <<>>

MarksNext ==
    \/ \E uriString \in NodeUris, color \in Colors : MarkNode(uriString, color)
    \/ \E uriString \in NodeUris : RemoveNodeMark(uriString)
    \/ ClearAllMarks
    \/ UpdateDone
    \/ LoadNodeMarks

SpecMarks == MarksInit /\ [][MarksNext]_vars

(***************************************************************************)
(* The markup scan as a state machine: one step per line of the template   *)
(* content, then the return.                                               *)
(***************************************************************************)
MaxTagLines == 3

TplLines ==
    <<"<div id=\"x\">", "</div>", "  <p>", "  </p>", "<my-list>", "</my-list>",
      "  <span>text</span>", "  <br />">>

\* the template contents of at most n lines
TplContentsOf(n) ==
    UNION {{[i \in 1..k |-> TplLines[f[i]]] : f \in [1..k -> DOMAIN TplLines]} : k \in 0..n}

TplInit ==
    /\ parsers = DefaultParsers
    /\ ViewInit
    /\ \E content \in TplContentsOf(MaxTagLines) : scans = <<TplStart(content, 2)>>

TplScanLine(t) ==
    /\ scans[t].parser = "template"
    /\ scans[t].pc = "loop"
    /\ scans[t].lineNum < Len(scans[t].lines)
    /\ scans' = [scans EXCEPT ![t] = TplParseLine(@)]
    /\ UNCHANGED <<parsers, viewVars>>

TplNext ==
    \/ \E t \in DOMAIN scans : TplScanLine(t)
    \/ \E t \in DOMAIN scans : ScanReturn(t)

SpecTpl == TplInit /\ [][TplNext]_vars

(***************************************************************************)
(* Properties of the C# scan                                               *)
(***************************************************************************)
\* the class elements of a tree: at the root or under a namespace
ClassesOf(elements) ==
    {elements[i] : i \in {i \in DOMAIN elements : elements[i].type = CodeElementType.Class}}
    \cup UNION {{elements[i].children[j] :
                   j \in {j \in DOMAIN elements[i].children :
                             elements[i].children[j].type = CodeElementType.Class}} :
                i \in DOMAIN elements}

\* the constructor and method children of a class element
CallablesOf(cls) ==
    {cls.children[j] :
       j \in {j \in DOMAIN cls.children :
                 cls.children[j].type \in {CodeElementType.Constructor, CodeElementType.Method}}}

\* C1 as stated: a callable child of a class is a constructor if and only if
\* its name equals the name of the class.
C1_ConstructorIffClassName ==
    \A t \in DOMAIN scans : \A cls \in ClassesOf(scans[t].elements) :
      \A c \in CallablesOf(cls) :
        (c.type = CodeElementType.Constructor) <=> (c.name = cls.name)

\* C1 as amended: a callable child of a class is a constructor only if its
\* name equals the name of the class, and a callable child that has the name
\* of the class is a method only if it was declared with a return type other
\* than the class name, which it then records.
C1_ConstructorNaming ==
    \A t \in DOMAIN scans : \A cls \in ClassesOf(scans[t].elements) :
      \A c \in CallablesOf(cls) :
        /\ c.type = CodeElementType.Constructor => c.name = cls.name
        /\ (c.type = CodeElementType.Method /\ c.name = cls.name)
             => c.returnType \notin {Undefined, cls.name}

\* C1 witness: the scan of namespace Foo { class Bar { public Bar() {}
\* public void Baz(int x) {} } } has returned Foo -> Bar -> [Bar, Baz], with
\* Bar a constructor and Baz a method with parameters "int x".
C1_Witness ==
    \E t \in DOMAIN scans :
      /\ scans[t].pc = "done"
      /\ Len(scans[t].result) = 1
      /\ scans[t].result[1].type = CodeElementType.Namespace
      /\ scans[t].result[1].name = "Foo"
      /\ Len(scans[t].result[1].children) = 1
      /\ scans[t].result[1].children[1].type = CodeElementType.Class
      /\ scans[t].result[1].children[1].name = "Bar"
      /\ Len(scans[t].result[1].children[1].children) = 2
      /\ scans[t].result[1].children[1].children[1].type = CodeElementType.Constructor
      /\ scans[t].result[1].children[1].children[1].name = "Bar"
      /\ scans[t].result[1].children[1].children[2].type = CodeElementType.Method
      /\ scans[t].result[1].children[1].children[2].name = "Baz"
      /\ scans[t].result[1].children[1].children[2].parameters = "int x"

\* the tree new holds the tree old and, at most, elements appended to its
\* lists: nothing found earlier is dropped, changed or moved
RECURSIVE Grown(_, _)
Grown(old, new) ==
    /\ Len(old) <= Len(new)
    /\ \A i \in DOMAIN old :
         /\ [old[i] EXCEPT !.children = <<>>] = [new[i] EXCEPT !.children = <<>>]
         /\ Grown(old[i].children, new[i].children)

\* line i of the input declares a class whose opening brace, on that line,
\* is not matched by any later line
UnclosedClassAt(lines, i) ==
    /\ Includes(lines[i], "class ")
    /\ \A j \in i..Len(lines) : BraceDelta(Concat(SubSeq(lines, i, j))) > 0

\* C8: in the C# scan every step keeps the elements found so far, in their
\* order, and the return at the end of an input that never closes its class
\* leaves the class frame open and hands back the tree built so far, with
\* the class element and the members found for it.
C8_TruncatedClassReturned ==
    [][\A t \in DOMAIN scans :
         /\ Grown(scans[t].elements, scans'[t].elements)
         /\ (scans[t].pc = "loop" /\ scans'[t].pc = "done"
             /\ \E i \in DOMAIN scans[t].lines : UnclosedClassAt(scans[t].lines, i))
              => /\ scans[t].currentClass # Null
                 /\ scans'[t].result = scans[t].elements
                 /\ scans'[t].currentClass = scans[t].currentClass
                 /\ NodeAt(scans'[t].result, scans[t].currentClass).type
                      = CodeElementType.Class]_vars

\* C8 witness: a scan has returned at the end of an input that leaves the
\* braces of its class open, and the class it returns has two members.
C8_Witness ==
    \E t \in DOMAIN scans :
      /\ scans[t].pc = "done"
      /\ \E i \in DOMAIN scans[t].lines : UnclosedClassAt(scans[t].lines, i)
      /\ scans[t].currentClass # Null
      /\ NodeAt(scans[t].result, scans[t].currentClass).type = CodeElementType.Class
      /\ Len(NodeAt(scans[t].result, scans[t].currentClass).children) = 2

(***************************************************************************)
(* Properties of the trees parseFile returns                               *)
(***************************************************************************)
\* the paths of the elements of the first three levels of a tree
PathsOf(elements) ==
    {<<i>> : i \in DOMAIN elements}
    \cup UNION {{<<i, j>> : j \in DOMAIN elements[i].children} : i \in DOMAIN elements}
    \cup UNION {UNION {{<<i, j, k>> : k \in DOMAIN elements[i].children[j].children} :
                         j \in DOMAIN elements[i].children} : i \in DOMAIN elements}

RECURSIVE ElementAt(_, _)
ElementAt(elements, p) ==
    IF Len(p) = 1 THEN elements[p[1]] ELSE ElementAt(elements[p[1]].children, Tail(p))

\* the brace depth of the text in front of line i
DepthBefore(lines, i) == BraceDelta(Concat(SubSeq(lines, 1, i - 1)))

\* every brace is closed, and none is closed before it is opened
WellNested(lines) ==
    /\ BraceDelta(Concat(lines)) = 0
    /\ \A i \in DOMAIN lines : DepthBefore(lines, i) >= 0

\* the line that opens the innermost block line i is in, 0 at the top level
Encloser(lines, i) ==
    With({j \in 1..(i - 1) : DepthBefore(lines, j) < DepthBefore(lines, i)},
         LAMBDA outer : IF outer = {} THEN 0 ELSE Max(outer))

IsCommentLine(line) == StartsWith(Trim(line), "//")

\* a namespace or class declaration
IsScopeLine(line) ==
    ~IsCommentLine(line) /\ (Includes(line, "namespace ") \/ Includes(line, "class "))

\* a callable declared directly in the block of a class
IsMethodLine(lines, i) ==
    /\ ~IsCommentLine(lines[i])
    /\ Includes(lines[i], "(")
    /\ Encloser(lines, i) # 0
    /\ IsScopeLine(lines[Encloser(lines, i)])
    /\ Includes(lines[Encloser(lines, i)], "class ")

\* a documentation pseudo-element
IsPseudo(el) ==
    /\ el.type = CodeElementType.Variable
    /\ el.name \in {DescriptionName, ParametersName, ReturnsName}

\* C2: when a C# or Java scan of a well-nested input has returned, every
\* namespace, class and method declaration of the input has its element at the
\* level of its nesting depth, as a child of the element of the declaration
\* that encloses it, and the element of a method has only documentation
\* pseudo-elements as children.
C2_TreeMirrorsNesting ==
    \A t \in DOMAIN scans :
      (scans[t].pc = "done" /\ scans[t].parser \in {"cs", "java"}
       /\ WellNested(scans[t].lines))
        => \A i \in DOMAIN scans[t].lines :
             (IsScopeLine(scans[t].lines[i]) \/ IsMethodLine(scans[t].lines, i))
               => \E p \in PathsOf(scans[t].result) :
                    /\ ElementAt(scans[t].result, p).line = i
                    /\ Len(p) = DepthBefore(scans[t].lines, i) + 1
                    /\ Len(p) > 1
                         => ElementAt(scans[t].result, SubSeq(p, 1, Len(p) - 1)).line
                              = Encloser(scans[t].lines, i)
                    /\ IsMethodLine(scans[t].lines, i)
                         => \A c \in DOMAIN ElementAt(scans[t].result, p).children :
                              IsPseudo(ElementAt(scans[t].result, p).children[c])

\* in a tree, at every depth, the children of a constructor, method or
\* function element are documentation pseudo-elements, and its children list
\* is a list
RECURSIVE CallablesHoldOnlyDocs(_)
CallablesHoldOnlyDocs(elements) ==
    \A i \in DOMAIN elements :
      /\ elements[i].type \in {CodeElementType.Constructor, CodeElementType.Method,
                               CodeElementType.Function}
           => /\ elements[i].children # Undefined
              /\ \A c \in DOMAIN elements[i].children : IsPseudo(elements[i].children[c])
      /\ CallablesHoldOnlyDocs(elements[i].children)

\* C3: in the tree a scanner has built so far and in the tree parseFile
\* returns, from a scanner or from the symbol conversion, a constructor,
\* method or function element has a children list that holds nothing but
\* documentation pseudo-elements (kind variable, named description, parameters
\* or returns).
C3_CallablesHoldOnlyDocs ==
    \A t \in DOMAIN scans :
      /\ scans[t].pc = "loop" => CallablesHoldOnlyDocs(scans[t].elements)
      /\ scans[t].pc = "done" => CallablesHoldOnlyDocs(scans[t].result)

\* C3 witness: the symbol conversion has returned the tree of a class symbol
\* whose method symbol has a local variable as its child, and the method
\* element has an empty children list.
C3_Witness ==
    \E t \in DOMAIN scans :
      /\ scans[t].pc = "done"
      /\ scans[t].parser = "symbols"
      /\ scans[t].symbols[1].kind = "Class"
      /\ Len(scans[t].symbols[1].children) > 0
      /\ scans[t].symbols[1].children[1].kind = "Method"
      /\ Len(scans[t].symbols[1].children[1].children) > 0
      /\ scans[t].result[1].children[1].type = CodeElementType.Method
      /\ scans[t].result[1].children[1].children = <<>>

\* the names of the pseudo-nodes the documentation data of an element calls
\* for, in their order: summary, parameter descriptions, return description
ExpectedDocs(el, params) ==
    (IF Truthy(el.comment) THEN <<DescriptionName>> ELSE <<>>)
    \o (IF Len(params) > 0 THEN <<ParametersName>> ELSE <<>>)
    \o (IF Truthy(el.returns) THEN <<ReturnsName>> ELSE <<>>)

\* the children of el start with exactly the pseudo-nodes docs names, of kind
\* variable, the parameters node holding one node per documented parameter
DocsLead(el, docs, params) ==
    /\ Len(el.children) >= Len(docs)
    /\ \A k \in DOMAIN docs :
         /\ el.children[k].name = docs[k]
         /\ el.children[k].type = CodeElementType.Variable
         /\ docs[k] = ParametersName
              => /\ Len(el.children[k].children) = Len(params)
                 /\ \A q \in DOMAIN params :
                      /\ el.children[k].children[q].name = params[q].name
                      /\ el.children[k].children[q].type = CodeElementType.Variable
    /\ \A c \in DOMAIN el.children :
         IsPseudo(el.children[c]) => \E k \in DOMAIN docs : docs[k] = el.children[c].name

\* at every depth of a tree scanned from lines without a line offset, a
\* documented constructor, method or function has its pseudo-nodes in place
RECURSIVE DocsInPlace(_, _)
DocsInPlace(elements, lines) ==
    \A i \in DOMAIN elements :
      /\ (/\ elements[i].type \in {CodeElementType.Constructor, CodeElementType.Method,
                                   CodeElementType.Function}
          /\ ExpectedDocs(elements[i],
                          extractXmlCommentInfo(lines, elements[i].line - 1).params) # <<>>)
           => DocsLead(elements[i],
                       ExpectedDocs(elements[i],
                                    extractXmlCommentInfo(lines, elements[i].line - 1).params),
                       extractXmlCommentInfo(lines, elements[i].line - 1).params)
      /\ IsPseudo(elements[i]) \/ DocsInPlace(elements[i].children, lines)

\* C4: in the tree a C# or script scan returns, a constructor, method or
\* function element whose documentation gave a summary, parameter descriptions
\* or a return description has as its first children the description, the
\* parameters (one child per documented parameter, in order) and the returns
\* pseudo-node, in that order, each present exactly when its data is not
\* empty, all of kind variable.
C4_DocPseudoNodesFirst ==
    \A t \in DOMAIN scans :
      (scans[t].pc = "done" /\ scans[t].parser \in {"cs", "js"})
        => DocsInPlace(scans[t].result, scans[t].lines)

\* at every depth of a tree, a constructor or method declared right under
\* "///" lines has the summary of those lines as its comment and their
\* parameter descriptions, in order, as its params
RECURSIVE DocsOnElement(_, _)
DocsOnElement(elements, lines) ==
    \A i \in DOMAIN elements :
      /\ (/\ elements[i].type \in {CodeElementType.Constructor, CodeElementType.Method}
          /\ elements[i].line > 1
          /\ StartsWith(Trim(lines[elements[i].line - 1]), "///")
          /\ Truthy(extractXmlCommentInfo(lines, elements[i].line - 1).summary))
           => /\ elements[i].comment
                   = extractXmlCommentInfo(lines, elements[i].line - 1).summary
              /\ elements[i].params
                   = extractXmlCommentInfo(lines, elements[i].line - 1).params
      /\ IsPseudo(elements[i]) \/ DocsOnElement(elements[i].children, lines)

\* C5: in the tree a C# scan returns, the element of a callable declared right
\* under "///" lines with a summary tag and param tags has the summary text as
\* its comment and carries, on the element itself, the ordered list of the
\* (name, description) pairs of the param tags; for the Add example, comment
\* "Add two numbers" and the one pair ("a", "first").
C5_ParamDescriptionsOnElement ==
    \A t \in DOMAIN scans :
      (scans[t].pc = "done" /\ scans[t].parser = "cs")
        => /\ DocsOnElement(scans[t].result, scans[t].lines)
           /\ \A p \in PathsOf(scans[t].result) :
                ElementAt(scans[t].result, p).name = "Add"
                  => /\ ElementAt(scans[t].result, p).comment = "Add two numbers"
                     /\ ElementAt(scans[t].result, p).params
                          = <<[name |-> "a", description |-> "first"]>>

\* at every depth of a tree, the line of a declared element is a line of the
\* file, after line first, whose text carries the name of the element
RECURSIVE LinesCarryNames(_, _, _)
LinesCarryNames(elements, lines, first) ==
    \A i \in DOMAIN elements :
      \/ IsPseudo(elements[i])
      \/ /\ elements[i].line \in (first + 1)..Len(lines)
         /\ Includes(lines[elements[i].line], elements[i].name)
         /\ LinesCarryNames(elements[i].children, lines, first)

\* C6: in the tree the scan of a .vue file returns, every element found in
\* the script region, in ordinary-declaration mode or in options-object mode,
\* has as its line the 1-based number, in the .vue file, of the line that
\* carries its declaration.
C6_VueLinesAreFileLines ==
    \A t \in DOMAIN scans :
      (scans[t].pc = "done" /\ scans[t].parser = "vue")
        => \A i \in DOMAIN scans[t].result :
             scans[t].result[i].name = "script"
               => LinesCarryNames(scans[t].result[i].children, scans[t].lines,
                                  scans[t].result[i].line)

\* the tree holds export default -> methods -> foo, foo a method
HoldsFooMethod(elements) ==
    \E e \in DOMAIN elements :
      /\ elements[e].name = "export default"
      /\ \E b \in DOMAIN elements[e].children :
           /\ elements[e].children[b].name = "methods"
           /\ \E m \in DOMAIN elements[e].children[b].children :
                /\ elements[e].children[b].children[m].name = "foo"
                /\ elements[e].children[b].children[m].type = CodeElementType.Method

\* C7: the script scan of export default { methods: { foo() {} } } returns
\* exactly one root element, named "export default", with exactly one child,
\* named "methods", with exactly one child, the method foo; and in the tree
\* the scan of any script returns, the entry foo() {} of a methods bag is a
\* child of the methods element, which is a child of the export element.
C7_ExportDefaultMethods ==
    \A t \in DOMAIN scans :
      (scans[t].pc = "done" /\ scans[t].parser = "js")
        => /\ scans[t].lines = <<"export default { methods: { foo() {} } }">>
                => /\ Len(scans[t].result) = 1
                   /\ Len(scans[t].result[1].children) = 1
                   /\ Len(scans[t].result[1].children[1].children) = 1
                   /\ HoldsFooMethod(scans[t].result)
           /\ (\E i \in DOMAIN scans[t].lines : Includes(scans[t].lines[i], "foo() {}"))
                => HoldsFooMethod(scans[t].result)

\* the span tag of line i stands inside a div tag that is still open
SpanInsideDiv(lines, i) ==
    /\ Includes(lines[i], "<span>")
    /\ \/ /\ Includes(lines[i], "<div")
          /\ IndexOf(lines[i], "<div") < IndexOf(lines[i], "<span>")
       \/ \E j \in 1..(i - 1) :
            /\ Includes(lines[j], "<div")
            /\ \A k \in j..(i - 1) : ~Includes(lines[k], "</div>")

\* C9: in the tree the scan of an .html file returns, a span tag that stands
\* inside an open div tag is a child of the element of that div, never a
\* root; and <div id="x"><span>...</span></div> yields exactly one root,
\* named x, whose single child is named span.
C9_MarkupNesting ==
    \A t \in DOMAIN scans :
      (scans[t].pc = "done" /\ scans[t].parser = "html")
        => /\ \A i \in DOMAIN scans[t].lines :
                SpanInsideDiv(scans[t].lines, i)
                  => \E e \in DOMAIN scans[t].result :
                       /\ scans[t].result[e].name = "x"
                       /\ \E c \in DOMAIN scans[t].result[e].children :
                            scans[t].result[e].children[c].name = "span"
           /\ scans[t].lines = <<"<div id=\"x\"><span>...</span></div>">>
                => /\ Len(scans[t].result) = 1
                   /\ scans[t].result[1].name = "x"
                   /\ Len(scans[t].result[1].children) = 1
                   /\ scans[t].result[1].children[1].name = "span"

\* the calls t and u scan the same lines as the same kind of file
SameInput(t, u) ==
    /\ scans[t].lines = scans[u].lines
    /\ scans[t].parser = scans[u].parser
    /\ scans[t].parser \in {"symbols", "none"}
         => /\ scans[t].ext = scans[u].ext
            /\ scans[t].symbols = scans[u].symbols

ScanOf(class) ==
    CASE class = "CSharpParser" -> "cs"
      [] class = "JavaParser" -> "java"
      [] class = "JavaScriptParser" -> "js"
      [] class = "VueParser" -> "vue"
      [] class = "HtmlParser" -> "html"
      [] OTHER -> "throws"

\* what createParser returns for a path of the extension: the scan of the
\* instance, "none" for null
Resolved(ext) == createParser(Pending(File(ext, <<>>, <<>>))).parser

\* C11: createParser resolves every path by the class the map holds for
\* its lower-cased extension, and to null when it holds none; and every
\* step that registers the class P for the extension e leaves the map with
\* P for the lower-cased e, whatever it held for it before, and with what
\* it held before for every other key.
C11_LastRegistrationWins ==
    [][/\ \A ext \in RegistryExtensions :
            Resolved(ext) = IF toLowerCase(ext) \in DOMAIN parsers
                            THEN ScanOf(parsers[toLowerCase(ext)]) ELSE "none"
       /\ \A e \in RegisteredExtensions : \A P \in ParserClasses :
            RegisterParser(e, P)
              => /\ DOMAIN parsers' = DOMAIN parsers \cup {toLowerCase(e)}
                 /\ \A k \in DOMAIN parsers' :
                      parsers'[k] = IF k = toLowerCase(e) THEN P ELSE parsers[k]]_vars

\* a class has been registered for .py over another one, and a scan of a
\* file whose extension is written .PY runs an instance of it
C11_Witness ==
    /\ ".py" \in DOMAIN parsers
    /\ \E t \in DOMAIN scans :
         /\ scans[t].pc = "done"
         /\ scans[t].parser = ScanOf(parsers[".py"])
         /\ scans[t].parser = "cs"
         /\ scans[t].result # <<>>
    /\ Resolved(".PY") = "cs"
    /\ Resolved(".cs") = "html"

\* C12: createParser returns null for every path whose lower-cased
\* extension has no registered class; no call of parseFile ends by raising;
\* and a call that took the custom parser and found no class for the file, or
\* a class whose parse throws, returns the empty list.
C12_UnsupportedIsAbsence ==
    /\ \A ext \in RegistryExtensions :
         toLowerCase(ext) \notin DOMAIN parsers => Resolved(ext) = "none"
    /\ \A t \in DOMAIN scans :
         /\ scans[t].pc # "raised"
         /\ (scans[t].pc = "done" /\ scans[t].parser \in {"none", "throws"})
              => scans[t].result = <<>>

\* a class whose parse throws is registered for .py, the scan of a .py file
\* has run it and returned the empty list, and .go still has no class
C12_Witness ==
    /\ ".py" \in DOMAIN parsers
    /\ parsers[".py"] = "ThrowingParser"
    /\ Resolved(".go") = "none"
    /\ \E t \in DOMAIN scans :
         /\ scans[t].pc = "done"
         /\ scans[t].parser = "throws"
         /\ scans[t].result = <<>>

\* C30: in every state of the registry and for every path p, isSupported(p)
\* holds exactly when createParser(p) returns a parser, and exactly when the
\* lower-cased extension of p is one of getSupportedExtensions(); and no
\* call of createParser, isSupported or getSupportedExtensions changes the
\* map.
C30_QueriesAgree ==
    /\ [](\A filePath \in RegistryPaths :
            /\ isSupported(filePath) <=> Resolved(filePath) # "none"
            /\ isSupported(filePath)
                 <=> toLowerCase(ExtensionOf(filePath)) \in getSupportedExtensions)
    /\ [][(\/ \E t \in DOMAIN scans : UseCustomParser(t)
           \/ \E filePath \in RegistryPaths : IsSupported(filePath)
           \/ GetSupportedExtensions)
            => parsers' = parsers]_vars

\* a class has been registered for .py: the paths ending in .py and .PY are
\* supported and resolved, .py is among the supported extensions, and the
\* paths without a registered extension are not supported
C30_Witness ==
    /\ ".py" \in getSupportedExtensions
    /\ parsers # DefaultParsers
    /\ isSupported("/src/c.py") /\ isSupported("/src/d.PY") /\ isSupported("/src/B.HTML")
    /\ Resolved("/src/d.PY") # "none"
    /\ ~isSupported("Makefile") /\ ~isSupported("/my.dir/notes")
    /\ \E t \in DOMAIN scans : scans[t].pc = "done"

(***************************************************************************)
(* Properties of the Vue scan                                              *)
(***************************************************************************)
\* no line of the file holds a region tag
HasNoRegionTag(lines) ==
    \A i \in DOMAIN lines :
      /\ ~Includes(lines[i], "<template")
      /\ ~Includes(lines[i], "<script")
      /\ ~Includes(lines[i], "<style")

\* C13: the scan of a .vue file without any region tag returns what the
\* script scan returns for all the lines of the file.
C13_TaglessVueIsScript ==
    \A t \in DOMAIN scans :
      (scans[t].pc = "done" /\ scans[t].parser = "vue" /\ HasNoRegionTag(scans[t].lines))
        => scans[t].result = parseScriptContent(scans[t].lines, 0)

\* the template tags opened less those closed on the lines 1..j
RECURSIVE TemplateDepth(_, _)
TemplateDepth(lines, j) ==
    IF j = 0 THEN 0
    ELSE TemplateDepth(lines, j - 1)
         + Cardinality(Occurrences(lines[j], "<template"))
         - Cardinality(Occurrences(lines[j], "</template>"))

\* the lines between the opening tag of an outer template and its matching
\* closing tag
TemplateRegion(lines) ==
    {j \in DOMAIN lines : TemplateDepth(lines, j - 1) > 0 /\ TemplateDepth(lines, j) > 0}

\* C14: a step of the Vue scan that processes a line between the opening
\* tag of an outer template and its matching closing tag adds no element and
\* collects no script content.
C14_TemplateSkipped ==
    [][\A t \in DOMAIN scans :
         (/\ scans[t].parser = "vue"
          /\ scans[t].pc = "loop"
          /\ scans'[t].pc = "loop"
          /\ scans'[t].lineNum = scans[t].lineNum + 1
          /\ scans'[t].lineNum \in TemplateRegion(scans[t].lines))
           => /\ scans'[t].elements = scans[t].elements
              /\ scans'[t].scriptContent = scans[t].scriptContent
              /\ scans'[t].inScriptTag = scans[t].inScriptTag]_vars

\* C16: every extension that has a parser class registered, at start or by
\* registerParser, is resolved by createParser to a parser of that class
\* and is taken for parsable by the structure view and the workspace scan.
C16_RegisteringSuffices ==
    \A ext \in RegistryExtensions :
      toLowerCase(ext) \in DOMAIN parsers
        => /\ Resolved(ext) = ScanOf(parsers[toLowerCase(ext)])
           /\ isParsableFile(ext)

(***************************************************************************)
(* Properties of the frames of the C# scan                                 *)
(***************************************************************************)
\* the scan t is about to process a line that the skip test lets through
CsProcesses(t) ==
    /\ CsScanLine(t)
    /\ ~CsSkips(Trim(scans[t].lines[scans[t].lineNum + 1]))

\* C17: a namespace, class or method frame opened on a line records the
\* depth before that line's braces were counted; and a frame that was open
\* before a processed line is closed on that line exactly when the depth
\* after the line is at most the recorded floor.
C17_FloorIsDepthBefore ==
    [][\A t \in DOMAIN scans :
         CsProcesses(t) =>
           /\ scans'[t].currentNamespace \notin {Null, scans[t].currentNamespace}
                => scans'[t].namespaceStartBrace = scans[t].braceCount
           /\ scans'[t].currentClass \notin {Null, scans[t].currentClass}
                => scans'[t].classStartBrace = scans[t].braceCount
           /\ scans'[t].inMethod /\ (~scans[t].inMethod \/ scans'[t].elements # scans[t].elements)
                => scans'[t].methodBraceLevel = scans[t].braceCount
           /\ scans[t].currentNamespace # Null
                => (scans'[t].currentNamespace # scans[t].currentNamespace
                      <=> scans'[t].braceCount <= scans[t].namespaceStartBrace)
           /\ scans[t].currentClass # Null
                => (scans'[t].currentClass # scans[t].currentClass
                      <=> scans'[t].braceCount <= scans[t].classStartBrace)
           /\ scans[t].inMethod /\ scans'[t].elements = scans[t].elements
                => (~scans'[t].inMethod
                      <=> scans'[t].braceCount <= scans[t].methodBraceLevel)]_vars

\* the same for the namespace and class frames alone, a class frame being
\* closed with its namespace
CsContainerFloors ==
    [][\A t \in DOMAIN scans :
         CsProcesses(t) =>
           /\ scans'[t].currentNamespace \notin {Null, scans[t].currentNamespace}
                => scans'[t].namespaceStartBrace = scans[t].braceCount
           /\ scans'[t].currentClass \notin {Null, scans[t].currentClass}
                => scans'[t].classStartBrace = scans[t].braceCount
           /\ scans[t].currentNamespace # Null
                => (scans'[t].currentNamespace # scans[t].currentNamespace
                      <=> scans'[t].braceCount <= scans[t].namespaceStartBrace)
           /\ scans[t].currentClass # Null
                => (scans'[t].currentClass # scans[t].currentClass
                      <=> \/ scans'[t].braceCount <= scans[t].classStartBrace
                          \/ /\ scans[t].currentNamespace # Null
                             /\ scans'[t].braceCount <= scans[t].namespaceStartBrace)]_vars

\* the opening minus the closing braces of the first n lines; with
\* processedOnly, of those of them that the skip test lets through
RECURSIVE NetBraces(_, _, _)
NetBraces(lines, n, processedOnly) ==
    IF n = 0 THEN 0
    ELSE NetBraces(lines, n - 1, processedOnly)
         + (IF processedOnly /\ CsSkips(Trim(lines[n])) THEN 0 ELSE BraceDelta(lines[n]))

\* C18: after each line, the running depth of the C# scan is the number of
\* opening braces minus the number of closing braces in the processed lines
\* (those that are neither blank nor comment lines) up to and including it.
C18_DepthCountsProcessedLines ==
    \A t \in DOMAIN scans :
      scans[t].parser = "cs" /\ scans[t].pc = "loop"
        => scans[t].braceCount = NetBraces(scans[t].lines, scans[t].lineNum, TRUE)

\* a scan that has passed a comment line with a brace in it and a method with
\* its body, and is inside the class
C18_Witness ==
    \E t \in DOMAIN scans :
      /\ scans[t].parser = "cs" /\ scans[t].pc = "loop"
      /\ \E j \in 1..scans[t].lineNum :
           CsSkips(Trim(scans[t].lines[j])) /\ BraceDelta(scans[t].lines[j]) # 0
      /\ \E j \in 1..scans[t].lineNum : scans[t].lines[j] = "    }"
      /\ scans[t].braceCount = 1
      /\ scans[t].currentClass # Null

\* C18 as stated: the depth is the net brace count of all lines of the file
\* up to and including the line.
C18_DepthCountsAllLines ==
    \A t \in DOMAIN scans :
      scans[t].parser = "cs" /\ scans[t].pc = "loop"
        => scans[t].braceCount = NetBraces(scans[t].lines, scans[t].lineNum, FALSE)

\* the method frame of scan t is open before the line about to be processed
\* and none of the three scope checks of that line closes it
CsStaysInMethod(t) ==
    /\ CsProcesses(t)
    /\ scans[t].inMethod
    /\ scans'[t].braceCount > scans[t].methodBraceLevel
    /\ scans'[t].braceCount > scans[t].classStartBrace
    /\ scans[t].currentNamespace # Null
         => scans'[t].braceCount > scans[t].namespaceStartBrace

\* the line processed by scan t added nothing, or it added one element of a
\* type of kinds as the last child of the open class and left a method
\* frame open whose floor is the depth after the line
CsAddsOnly(t, kinds) ==
    /\ scans'[t].currentClass = scans[t].currentClass
    /\ scans'[t].currentNamespace = scans[t].currentNamespace
    /\ scans'[t].inMethod
    /\ \/ /\ scans'[t].elements = scans[t].elements
          /\ scans'[t].methodBraceLevel = scans[t].methodBraceLevel
       \/ With(NodeAt(scans'[t].elements, scans[t].currentClass),
               LAMBDA class :
                 /\ class.children # <<>>
                 /\ With(class.children[Len(class.children)],
                         LAMBDA el :
                           /\ scans'[t].elements
                                = PushChild(scans[t].elements, scans[t].currentClass, el)
                           /\ el.type \in kinds
                           /\ el.type = CodeElementType.Constructor => el.name = class.name
                           /\ el.line = scans'[t].lineNum)
                 /\ scans'[t].methodBraceLevel = scans'[t].braceCount)

\* C19: while a method frame is open the C# scan emits no property, field,
\* class, interface, enum or namespace element; the only element a line can
\* add is a callable recognised by the method pattern: a method, or a
\* constructor when the pattern finds the class name as return type and as
\* name.  It becomes the last child of the open class, a sibling of the open
\* method, and the method frame continues with the current depth as floor.
C19_OnlyCallablesInMethod ==
    [][\A t \in DOMAIN scans :
         CsStaysInMethod(t)
           => CsAddsOnly(t, {CodeElementType.Method, CodeElementType.Constructor})]_vars

\* inside the open frame of Sum the line of the local constant has added
\* nothing and the local function Bar has been added to class Bar
C19_Witness ==
    \E t \in DOMAIN scans :
      /\ scans[t].parser = "cs" /\ scans[t].pc = "loop"
      /\ scans[t].lineNum >= 4
      /\ scans[t].lines[scans[t].lineNum] = "        static Bar Bar() { return null; }"
      /\ scans[t].lines[scans[t].lineNum - 1] = "        const int limit = 0;"
      /\ scans[t].inMethod
      /\ scans[t].methodBraceLevel = scans[t].braceCount
      /\ scans[t].currentClass # Null
      /\ With(NodeAt(scans[t].elements, scans[t].currentClass).children,
              LAMBDA children :
                /\ Len(children) = 2
                /\ children[1].name = "Sum"
                /\ children[2].name = "Bar"
                /\ children[2].line = scans[t].lineNum)

\* C19 as stated: the only element added while a method frame is open is a
\* method.
C19_OnlyMethodsInMethod ==
    [][\A t \in DOMAIN scans :
         CsStaysInMethod(t) => CsAddsOnly(t, {CodeElementType.Method})]_vars

\* the subtree of every root element that is neither the open namespace nor
\* the open class after the step is as before, and so is every child of
\* the open namespace that is not the open class
CsClosedFrozen(s, n) ==
    \A i \in 1..Len(s.elements) :
      IF n.currentNamespace # Null /\ n.currentNamespace[1] = i
      THEN \A j \in 1..Len(s.elements[i].children) :
             n.currentClass # <<i, j>>
               => n.elements[i].children[j] = s.elements[i].children[j]
      ELSE (n.currentClass = Null \/ n.currentClass[1] # i)
             => n.elements[i] = s.elements[i]

\* C20: a line that closes the namespace frame leaves no class frame of that
\* namespace and no method frame open; a line that closes the class frame
\* leaves no method frame open; a method frame is open only while a class
\* frame is; and no line adds anything below a namespace or class whose
\* frame is closed.
C20_OuterCloseClosesInner ==
    [][\A t \in DOMAIN scans :
         CsScanLine(t) =>
           /\ scans[t].currentNamespace # Null
                /\ scans'[t].currentNamespace # scans[t].currentNamespace
                => /\ ~scans'[t].inMethod
                   /\ \/ scans'[t].currentClass = Null
                      \/ scans'[t].currentClass[1] # scans[t].currentNamespace[1]
           /\ scans[t].currentClass # Null /\ scans'[t].currentClass # scans[t].currentClass
                => ~scans'[t].inMethod
           /\ scans'[t].inMethod => scans'[t].currentClass # Null
           /\ CsClosedFrozen(scans[t], scans'[t])]_vars

\* the brace on line 4 of the unbalanced file has closed the namespace with
\* the class and the method frame in it, although the depth is above the
\* floor of the class, and the member on line 5 was not added to the class
C20_Witness ==
    \E t \in DOMAIN scans :
      /\ scans[t].lines = CsUnbalanced
      /\ scans[t].lineNum = 5
      /\ scans[t].currentNamespace = Null
      /\ scans[t].currentClass = Null
      /\ ~scans[t].inMethod
      /\ scans[t].braceCount = 0
      /\ Len(scans[t].elements) = 1
      /\ Len(scans[t].elements[1].children) = 1
      /\ Len(scans[t].elements[1].children[1].children) = 1
      /\ scans[t].elements[1].children[1].children[1].name = "Baz"

\* C21: no field element of a C# scan comes from a line that contains "(",
\* or from a line that contains an opening brace and "get" or "set".
C21_FieldPatternExclusions ==
    \A t \in DOMAIN scans :
      scans[t].parser = "cs"
        => \A p \in PathsOf(scans[t].elements) :
             With(ElementAt(scans[t].elements, p),
                  LAMBDA el :
                    el.type = CodeElementType.Field
                      => With(scans[t].lines[el.line],
                              LAMBDA line :
                                /\ ~Includes(line, "(")
                                /\ ~(Includes(line, "{")
                                     /\ (Includes(line, "get") \/ Includes(line, "set")))))

(***************************************************************************)
(* Properties of the options-object mode of the script scan                *)
(***************************************************************************)
\* at every depth of a tree, the line of a declared element less k is the
\* 1-based number of a line of the fragment whose text carries its name
RECURSIVE FragmentLinesCarryNames(_, _, _)
FragmentLinesCarryNames(elements, fragment, k) ==
    \A e \in DOMAIN elements :
      \/ IsPseudo(elements[e])
      \/ /\ elements[e].line - k \in DOMAIN fragment
         /\ Includes(fragment[elements[e].line - k], elements[e].name)
         /\ FragmentLinesCarryNames(elements[e].children, fragment, k)

\* the elements of the default exports of a tree
ExportsOf(elements) ==
    SelectSeq(elements, LAMBDA el : el.name = "export default")

\* C22: the export element, the option key elements and the bag entry
\* elements that the script scan makes of a fragment with offset k have
\* line = i + 1 + k, i the 0-based index in the fragment of the line that
\* declares them: k = 0 for a script file, and for the script region of a
\* .vue file the offset VueParser passes, the line of the script element
\* plus one, the fragment being the lines after the script tag.
C22_OptionLinesShifted ==
    \A t \in DOMAIN scans :
      scans[t].pc = "done"
        => /\ scans[t].parser = "js"
                => FragmentLinesCarryNames(ExportsOf(scans[t].result), scans[t].lines,
                                           scans[t].startLineOffset)
           /\ scans[t].parser = "vue"
                => \A e \in DOMAIN scans[t].result :
                     scans[t].result[e].name = "script"
                       => FragmentLinesCarryNames(
                            ExportsOf(scans[t].result[e].children),
                            SubSeq(scans[t].lines, scans[t].result[e].line + 1,
                                   Len(scans[t].lines)),
                            scans[t].result[e].line + 1)

\* a .vue scan has returned a script element on line 4 whose export element
\* is on line 0 + 1 + 5, with the option methods and its entry foo on the
\* two lines after it
C22_Witness ==
    \E t \in DOMAIN scans :
      /\ scans[t].pc = "done" /\ scans[t].parser = "vue"
      /\ \E e \in DOMAIN scans[t].result :
           /\ scans[t].result[e].line = 4
           /\ \E x \in DOMAIN scans[t].result[e].children :
                With(scans[t].result[e].children[x],
                     LAMBDA export :
                       /\ export.name = "export default"
                       /\ export.line = 6
                       /\ \E o \in DOMAIN export.children :
                            /\ export.children[o].name = "methods"
                            /\ export.children[o].line = 7
                            /\ \E m \in DOMAIN export.children[o].children :
                                 /\ export.children[o].children[m].name = "foo"
                                 /\ export.children[o].children[m].line = 8)

\* the index set of a tuple as a set of its values
Range(seq) == {seq[i] : i \in DOMAIN seq}

\* C23: every child of an export element that is named after a lifecycle
\* hook is of a callable kind and has no children made of the body of the
\* hook; and the hook "  mounted() {" of a default export written option by
\* option has such a child.
C23_HooksAreCallables ==
    \A t \in DOMAIN scans :
      (scans[t].pc = "done" /\ scans[t].parser = "js")
        => \A e \in DOMAIN scans[t].result :
             scans[t].result[e].name = "export default"
               => With(scans[t].result[e].children,
                       LAMBDA options :
                         /\ \A o \in DOMAIN options :
                              options[o].name \in Range(LifecycleHooks)
                                => /\ options[o].type \in {CodeElementType.Method,
                                                           CodeElementType.Function,
                                                           CodeElementType.Constructor}
                                   /\ \A c \in DOMAIN options[o].children :
                                        IsPseudo(options[o].children[c])
                         /\ (\E i \in DOMAIN scans[t].lines :
                               scans[t].lines[i] = "  mounted() {")
                              => \E o \in DOMAIN options : options[o].name = "mounted")

(***************************************************************************)
(* Properties of the markup scan                                           *)
(***************************************************************************)
\* the line is a closing tag and nothing else
IsClosingTagLine(trimmedLine) ==
    /\ StartsWith(trimmedLine, "</")
    /\ EndsWith(trimmedLine, ">")
    /\ Occurrences(trimmedLine, "<") = {1}

\* C24: a line that is the closing tag </t> changes only the frame nearest
\* the top of the stack whose tag name is t: its counter is decremented and
\* the frame is removed when the counter is zero; the other frames, those
\* above it too, stay as they are; without such a frame the stack stays as
\* it is; and the tree is not changed.
C24_ClosingTagPopsNearest ==
    [][\A t \in DOMAIN scans :
         TplScanLine(t) /\ IsClosingTagLine(Trim(scans[t].lines[scans[t].lineNum + 1]))
           => With(Trim(scans[t].lines[scans[t].lineNum + 1]),
                   LAMBDA trimmedLine :
                     With({j \in DOMAIN scans[t].stack :
                             scans[t].stack[j].tagName
                               = SubSeq(trimmedLine, 3, Len(trimmedLine) - 1)},
                          LAMBDA matching :
                            /\ scans'[t].elements = scans[t].elements
                            /\ scans'[t].stack
                                 = IF matching = {} THEN scans[t].stack
                                   ELSE IF scans[t].stack[Max(matching)].braceCount - 1 <= 0
                                   THEN Splice(scans[t].stack, Max(matching))
                                   ELSE [scans[t].stack
                                           EXCEPT ![Max(matching)].braceCount = @ - 1]))]_vars

(***************************************************************************)
(* Properties of the comment texts                                         *)
(***************************************************************************)
\* the text is absent, or it does not begin with a slash, an asterisk or
\* whitespace
CleanStart(text) ==
    \/ text = Undefined
    \/ text = ""
    \/ Ch(text, 1) \notin {"/", "*"} \cup SpaceCh

\* C25: the comment of every element of a C# scan, and every parameter
\* description and return description on it, does not begin with a slash,
\* an asterisk or whitespace.
C25_CommentsAreClean ==
    \A t \in DOMAIN scans :
      scans[t].parser = "cs"
        => \A p \in PathsOf(scans[t].elements) :
             With(ElementAt(scans[t].elements, p),
                  LAMBDA el :
                    /\ CleanStart(el.comment)
                    /\ CleanStart(el.returns)
                    /\ \A i \in DOMAIN el.params : CleanStart(el.params[i].description))

\* the braces opened and not closed on lines from..to, comment lines not
\* counted
RECURSIVE OpenBraces(_, _, _)
OpenBraces(lines, from, to) ==
    IF from > to THEN 0
    ELSE (IF BagSkips(Trim(lines[to])) THEN 0 ELSE BraceDelta(Trim(lines[to])))
         + OpenBraces(lines, from, to - 1)

\* C29: in the returned tree of a script file, each child of an export
\* element comes from a line at nesting depth 1 of the exported object
\* literal: one brace, that of the export line, is open before the line.
C29_OptionKeysAtDepthOne ==
    \A t \in DOMAIN scans :
      (scans[t].pc = "done" /\ scans[t].parser = "js")
        => \A e \in DOMAIN scans[t].result :
             scans[t].result[e].name = "export default"
               => \A c \in DOMAIN scans[t].result[e].children :
                    OpenBraces(scans[t].lines, scans[t].result[e].line,
                               scans[t].result[e].children[c].line - 1) = 1

(***************************************************************************)
(* Properties of the members of a C# class                                 *)
(***************************************************************************)
\* the line that opens the innermost block line i is in, braces of comment
\* lines not counted; 0 at the top level
CodeEncloser(lines, i) ==
    With({j \in 1..(i - 1) : /\ ~CsSkips(Trim(lines[j]))
                             /\ NetBraces(lines, j - 1, TRUE) < NetBraces(lines, i - 1, TRUE)},
         LAMBDA outer : IF outer = {} THEN 0 ELSE Max(outer))

\* line i lies inside the body of a method or constructor: the block it is in
\* is opened on a line with a parameter list, or by a brace alone on the
\* line after one
InCallableBody(lines, i) ==
    With(CodeEncloser(lines, i),
         LAMBDA e :
           /\ e # 0
           /\ \/ Includes(lines[e], "(")
              \/ Trim(lines[e]) = "{" /\ e > 1 /\ Includes(lines[e - 1], "("))

\* C26: no property or field child of a class of a C# scan comes from a line
\* inside the body of a method or constructor, whether the body is opened on
\* the line of the declaration or on the line after it.
C26_NoMembersFromBodies ==
    \A t \in DOMAIN scans :
      scans[t].parser = "cs"
        => \A cls \in ClassesOf(scans[t].elements) :
             \A c \in DOMAIN cls.children :
               cls.children[c].type \in {CodeElementType.Property, CodeElementType.Field}
                 => ~InCallableBody(scans[t].lines, cls.children[c].line)

\* line i declares a class
IsClassLine(line) == ~CsSkips(Trim(line)) /\ Includes(line, "class ")

\* C27: in a C# scan of lines whose depth never falls below zero, every
\* class declaration line processed so far that is at the top level or
\* directly in the block of a namespace has a class element of its own, at
\* the root or as a child of the element of that namespace; so a class
\* opened and closed on its line does not take in the class after it.
C27_EveryClassHasItsElement ==
    \A t \in DOMAIN scans :
      (scans[t].parser = "cs"
       /\ \A j \in 0..Len(scans[t].lines) : NetBraces(scans[t].lines, j, TRUE) >= 0)
        => \A i \in 1..scans[t].lineNum :
             IsClassLine(scans[t].lines[i])
               => With(CodeEncloser(scans[t].lines, i),
                       LAMBDA e :
                         /\ e = 0
                              => \E x \in DOMAIN scans[t].elements :
                                   /\ scans[t].elements[x].type = CodeElementType.Class
                                   /\ scans[t].elements[x].line = i
                         /\ (e # 0 /\ Includes(scans[t].lines[e], "namespace "))
                              => \E x \in DOMAIN scans[t].elements :
                                   /\ scans[t].elements[x].type = CodeElementType.Namespace
                                   /\ scans[t].elements[x].line = e
                                   /\ \E y \in DOMAIN scans[t].elements[x].children :
                                        /\ scans[t].elements[x].children[y].type
                                             = CodeElementType.Class
                                        /\ scans[t].elements[x].children[y].line = i)

\* a line made of an access modifier or static, a return type, a name, a
\* parameter list and an opening brace
IsCallableLine(line) ==
    /\ ~CsSkips(Trim(line))
    /\ FirstMatch(<<CsMethodRe1, CsMethodRe2, CsMethodRe3>>, Trim(line)).ok
    /\ Includes(line, "{")

\* C28: in a C# scan, every processed line directly in the block of a class
\* that is made of an access modifier or static, a return type, a name, a
\* parameter list and an opening brace has a method or constructor element
\* of its own among the children of a class, whatever identifiers it holds.
C28_CallableLinesYieldCallables ==
    \A t \in DOMAIN scans :
      scans[t].parser = "cs"
        => \A i \in 1..scans[t].lineNum :
             (/\ IsCallableLine(scans[t].lines[i])
              /\ CodeEncloser(scans[t].lines, i) # 0
              /\ IsClassLine(scans[t].lines[CodeEncloser(scans[t].lines, i)]))
               => \E cls \in ClassesOf(scans[t].elements) :
                    \E c \in DOMAIN cls.children :
                      /\ cls.children[c].type
                           \in {CodeElementType.Method, CodeElementType.Constructor}
                      /\ cls.children[c].line = i

====
